---- MODULE Spec2Model ----
(***************************************************************************)
(* Credit ledger, pair billing state machine and purchase creditor of the  *)
(* backend (backend/functions/src/index.ts).                               *)
(*                                                                         *)
(* Credits are integers counted in 1/CREDIT_PRECISION_FACTOR of a credit   *)
(* (the code rounds every stored credit amount to CREDIT_DECIMALS = 3      *)
(* places).  USD costs are integers counted in cost units of 0.14875 USD,  *)
(* i.e. 0.5 raw credits at the net credit price of 0.2975 USD.             *)
(***************************************************************************)
EXTENDS Integers, Sequences, FiniteSets, TLC

\* ---------------------------------------------------------------- bounds
\* number of generation requests (each slot is one RPC invocation)
NReq == 3
\* number of verifyAndCreditPurchase requests for the one purchase token
NPur == 3
\* number of request handlers that run at the same time
MaxInFlight == 2
\* largest USD cost (in cost units) one model call can report
MaxUsageUsd == 2
\* largest pair estimate (in cost units) of one request
MaxEstUsd == 2
\* number of tier-1 packs the user owns when the model starts
MaxInitPacks == 1
\* number of getBalance requests
NGet == 2
\* thought and output chunks of one model stream
MaxChunks == 2
\* ticks of the keep-alive timer of one streaming request
MaxPings == 2
\* events of one response stream sent to the client
MaxEvents == 3

\* ------------------------------------------------------- program constants
CREDIT_PRECISION_FACTOR == 1000
MIN_BILLED_CREDITS == 10
GIF_PACK_TIER1 == 2000
INPUT_TOKEN_CAP == 199999

Req == 1..NReq
BILLING_ACTIONS == {"plan", "generate", "evaluate", "refine"}
UsageCosts == 0..MaxUsageUsd
EstCosts == 1..MaxEstUsd

Max(a, b) == IF a >= b THEN a ELSE b

\* roundCreditsNonNegative on an amount that is already a whole number of
\* 1/1000 credits: only the clamp at zero acts.
roundCreditsNonNegative(v) == Max(0, v)

\* ceilCredits: Math.ceil(Math.max(0, v) * factor) / factor on whole
\* thousandths.
ceilCredits(v) == Max(0, v)

isChargeAction(a) == a = "plan" \/ a = "evaluate"

\* ceil(1000 * applySmoothCreditCurve(raw)) for raw = 0.5 * k credits,
\* k = 0..14: raw * 1.03 + 0.85 * exp(-raw / 0.35).
CurveTable ==
  << 850, 719, 1079, 1557, 2063, 2576, 3091, 3606, 4121, 4636, 5151, 5666,
     6181, 6696, 7211 >>

\* billedCredits of computeGifBilling for a pair cost of k cost units
computeGifBilling(k) == Max(MIN_BILLED_CREDITS, CurveTable[k + 1])

creditsForGifOutput(k) == computeGifBilling(k)

\* ceilCredits(applySmoothCreditCurve(raw)) in 1/1000 credits for
\* raw = 0.1 * j credits, j = 0..40: the curve between the whole cost units
\* of CurveTable, down to a pair cost of zero.
FineCurveTable ==
  << 850, 742, 687, 670, 684, 719, 772, 837, 911, 992, 1079, 1170, 1264,
     1360, 1458, 1557, 1657, 1758, 1859, 1961, 2063, 2166, 2268, 2371, 2473,
     2576, 2679, 2782, 2885, 2988, 3091, 3194, 3297, 3400, 3503, 3606, 3709,
     3812, 3915, 4018, 4121 >>

\* the pair costs of FineCurveTable, in steps of 0.1 raw credits
FineCosts == 0 .. (Len(FineCurveTable) - 1)

\* MIN_BILLED_CREDITS = Math.max(0, numberFromEnv(..., 0.01)): no floor,
\* the default, and floors of one and of three credits
MinBilledConfigs ==
  {0, MIN_BILLED_CREDITS, CREDIT_PRECISION_FACTOR, 3 * CREDIT_PRECISION_FACTOR}

toDisplayCredits_Floor(v) == Max(1, Max(0, v) \div CREDIT_PRECISION_FACTOR)

\* toDisplayCredits: Math.max(1, Math.ceil(Math.max(0, value))), in whole
\* credits, of an amount in 1/1000 credits
toDisplayCredits(v) ==
  Max(1, (Max(0, v) + CREDIT_PRECISION_FACTOR - 1) \div CREDIT_PRECISION_FACTOR)

\* computeGifBilling from the ceiled curve credits on, under a configured
\* minimum
gifBillingOf(minBilled, ceiledCurveCredits) ==
  LET billedCredits == Max(minBilled, ceiledCurveCredits)
  IN [ billedCredits |-> billedCredits,
       displayCredits |-> toDisplayCredits(billedCredits) ]

\* ------------------------------------------------------------------ state
VARIABLES
  user,      \* the users/{uid} balance document
  session,   \* the generationSessions/{uid}_{sessionId} document
  req,       \* one record per generation request handler
  initBalance, \* the balance the model started from (history)
  purchase,  \* the purchases/{sha256(purchaseToken)} document
  pur,       \* one record per verifyAndCreditPurchase handler
  storeConsumed, \* Google Play: consumptionState of the purchase is 1
  credited,  \* credits added to the balance for the token so far (history)
  storeAccountId, \* Google Play: obfuscatedExternalAccountId of the purchase
  user2,     \* the users/{uid} document of a second account
  identity,  \* the Firebase Auth account of the uid exists
  gb,        \* one record per getBalance handler
  del,       \* the deleteMyAccount handler
  twin,      \* the request run on both endpoints, and what the first run did
  calc,      \* the last billing computation: its input and its result
  sse,       \* the response of the streaming request that runs, as written so far
  cli        \* the streaming client: the bytes it is sent and what it made of them

vars ==
  << user, session, req, initBalance, purchase, pur, storeConsumed, credited,
     storeAccountId, user2, identity, gb, del, twin, calc, sse, cli >>
billingVars == << session, req >>
secondVars == << storeAccountId, user2 >>
streamVars == << sse, cli >>
accountVars == << identity, gb, del, twin, calc, streamVars >>
purchaseVars == << purchase, pur, storeConsumed, credited, secondVars >>

Pur == 1..NPur
\* request.auth.uid of a caller: the owner of the user document and a second
\* account
Uids == {"u1", "u2"}
\* what purchases.products.get does: the purchase is purchased
\* (purchaseState 0), it is not (pending or cancelled), or the call throws
StoreAnswers == {"purchased", "notPurchased", "throws"}
\* the obfuscatedExternalAccountId the store holds: none, or the buyer's uid
StoreAccountIds == {"none", "u1"}
Get == 1..NGet

NoUsage == [usd |-> 0, tokens |-> 0]

IdleReq ==
  [ pc |-> "idle", action |-> "plan", variant |-> "sync", est |-> 0,
    target |-> 0, charged |-> 0, reserved |-> FALSE,
    reservationForRollback |-> FALSE, usage |-> NoUsage, additional |-> 0,
    err |-> "none",
    \* history of this request
    balBefore |-> 0, pgBefore |-> 0, prBefore |-> 0, resBefore |-> 0,
    inputTokens |-> 0,
    clean |-> FALSE,
    net |-> 0, rollbacks |-> 0 ]

\* A session document that was never written: every field reads as 0.
NoSession ==
  [ exists |-> FALSE, pendingGenerate |-> 0, pendingRefine |-> 0,
    pendingPlanCostUsd |-> 0, pendingPlanTokens |-> 0,
    pendingPlanReservedCredits |-> 0,
    pendingEvaluateCostUsd |-> 0, pendingEvaluateTokens |-> 0,
    pendingEvaluateReservedCredits |-> 0,
    lastAction |-> "none", lastFailedAction |-> "none" ]

UserDoc(b) ==
  [ exists |-> TRUE, balance |-> b, totalPurchased |-> b, totalConsumed |-> 0,
    creditDebt |-> 0, hasNegativeBalance |-> FALSE ]

\* A users document that was never written.
NoUser ==
  [ exists |-> FALSE, balance |-> 0, totalPurchased |-> 0, totalConsumed |-> 0,
    creditDebt |-> 0, hasNegativeBalance |-> FALSE ]

IdleGet == [ pc |-> "idle", uid |-> "u1", result |-> 0 ]

IdleDel == [ pc |-> "idle" ]

\* Nothing was computed yet.
NoCalc == [ fn |-> "none", minBilled |-> 0, cost |-> 0,
            billedCredits |-> 0, displayCredits |-> 0 ]

\* No request is being compared.
IdleTwin ==
  [ phase |-> "idle", action |-> "plan", est |-> 0, outcome |-> 0,
    preUser |-> NoUser, preSession |-> NoSession,
    syncUser |-> NoUser, syncSession |-> NoSession,
    syncPc |-> "idle", syncErr |-> "none", syncNet |-> 0, syncRollbacks |-> 0 ]

\* The locals of streamGenerateWithTokens and the response it writes:
\* no streaming request runs.
NoResponse ==
  [ r |-> 0, streamStarted |-> FALSE, heartbeat |-> FALSE,
    writableEnded |-> FALSE, returned |-> FALSE,
    events |-> << >>, chunks |-> 0, pings |-> 0,
    generating |-> FALSE, loopEnded |-> FALSE, usageMetadata |-> 0,
    usageEstimatedFallback |-> FALSE, httpCode |-> 0 ]

\* generateWithTokensStream was not called.
IdleClient ==
  [ pc |-> "idle", stream |-> << >>, pos |-> 0, buffer |-> << >>,
    completeResult |-> "null", streamError |-> "null", thrown |-> "none",
    \* the events that arrive whole, delimiter included (history)
    received |-> << >> ]

\* A purchase document that was never created.
NoPurchase ==
  [ exists |-> FALSE, uid |-> "none",
    status |-> "none", creditsGranted |-> 0, balanceAfter |-> 0,
    consumePending |-> FALSE, lastError |-> "none",
    \* more than 5 * 60 * 1000 ms have passed since updatedAt
    stale |-> FALSE ]

IdlePur ==
  [ pc |-> "idle", uid |-> "u1", newBalance |-> 0, error |-> "none",
    result |-> "none", balance |-> 0, alreadyCredited |-> FALSE ]

Init ==
  /\ \E n \in 1..MaxInitPacks :
       /\ user = UserDoc(n * GIF_PACK_TIER1)
       /\ initBalance = n * GIF_PACK_TIER1
  /\ session = NoSession
  /\ req = [r \in Req |-> IdleReq]
  /\ purchase = NoPurchase
  /\ pur = [p \in Pur |-> IdlePur]
  /\ storeConsumed = FALSE
  /\ credited = 0
  /\ storeAccountId = "unknown"
  /\ user2 = NoUser
  /\ identity = TRUE
  /\ gb = [g \in Get |-> IdleGet]
  /\ del = IdleDel
  /\ twin = IdleTwin
  /\ calc = NoCalc
  /\ sse = NoResponse
  /\ cli = IdleClient

\* ------------------------------------------------------- pair field sets
PlanFields ==
  [ pendingCostUsdField |-> "pendingPlanCostUsd",
    pendingTokensField |-> "pendingPlanTokens",
    pendingReservedCreditsField |-> "pendingPlanReservedCredits" ]

EvaluateFields ==
  [ pendingCostUsdField |-> "pendingEvaluateCostUsd",
    pendingTokensField |-> "pendingEvaluateTokens",
    pendingReservedCreditsField |-> "pendingEvaluateReservedCredits" ]

\* defined for generate and refine only (null otherwise in the code)
pendingPairFieldsForAction(a) ==
  IF a = "generate" THEN PlanFields ELSE EvaluateFields

reservationFieldsForAction(a) ==
  IF a = "plan" \/ a = "generate" THEN PlanFields ELSE EvaluateFields

\* readRequiredPendingPairState: ok = FALSE stands for the thrown
\* failed-precondition "... state is stale" error.
readRequiredPendingPairState(a, sessionData) ==
  LET fields == pendingPairFieldsForAction(a)
      pendingCostUsd == sessionData[fields.pendingCostUsdField]
      pendingTokens == sessionData[fields.pendingTokensField]
      pendingReservedCredits ==
        roundCreditsNonNegative(sessionData[fields.pendingReservedCreditsField])
      hasPendingCost == pendingCostUsd > 0
      hasPendingTokens == pendingTokens > 0
  IN [ ok |-> hasPendingCost /\ hasPendingTokens /\ pendingReservedCredits > 0,
       pendingCostUsd |-> pendingCostUsd,
       pendingTokens |-> pendingTokens,
       pendingReservedCredits |-> pendingReservedCredits ]

WithBalance_DebtOnlyGrows(u, newBalance) ==
  [ u EXCEPT !.exists = TRUE,
             !.balance = newBalance,
             !.creditDebt = Max(@, roundCreditsNonNegative(-newBalance)),
             !.hasNegativeBalance = @ \/ (newBalance < 0) ]

\* The balance fields every ledger transaction writes together.
WithBalance(u, newBalance) ==
  [ u EXCEPT !.exists = TRUE,
             !.balance = newBalance,
             !.creditDebt = roundCreditsNonNegative(-newBalance),
             !.hasNegativeBalance = (newBalance < 0) ]

currentBalanceOf(u) == IF u.exists THEN u.balance ELSE 0

\* A committed transaction of request r: r gets its new record, every other
\* request learns that the documents changed under it.
Commit(r, rec) ==
  [ q \in Req |-> IF q = r THEN rec ELSE [ req[q] EXCEPT !.clean = FALSE ] ]

\* The handler of request r has returned: its locals are gone.  What stays
\* is the outcome (and, as history, what the claims below refer to).
Finished(rec, outcome, error) ==
  IF outcome = "failed"
    THEN [ IdleReq EXCEPT !.pc = outcome, !.action = rec.action,
                          !.variant = rec.variant, !.err = error,
                          !.reserved = rec.reserved, !.clean = rec.clean,
                          !.net = rec.net, !.rollbacks = rec.rollbacks ]
    ELSE [ IdleReq EXCEPT !.pc = outcome, !.action = rec.action, !.err = error,
                          !.reserved = rec.reserved ]

InFlight == { q \in Req : req[q].pc \notin {"idle", "done", "failed", "rejected"} }

\* ---------------------------------------------------------------- gateway
\* validateAndBuildContents, then the charge-action branch of
\* computeProvisionalReserve.  Request slots are taken in order.
Start(r, a, v, e) ==
  /\ req[r].pc = "idle"
  /\ \A q \in Req : q < r => req[q].pc # "idle"
  /\ Cardinality(InFlight) < MaxInFlight
  /\ req' = [ req EXCEPT ![r] =
       [ @ EXCEPT !.action = a, !.variant = v, !.est = e,
                  !.target = IF isChargeAction(a) THEN creditsForGifOutput(e) ELSE 0,
                  !.pc = IF isChargeAction(a) THEN "reserve" ELSE "preread" ] ]
  /\ UNCHANGED << user, session, initBalance, purchaseVars, accountVars >>

\* computeProvisionalReserve for generate/refine: a read of the session
\* outside any transaction.
PreRead(r) ==
  /\ req[r].pc = "preread"
  /\ LET pendingState == readRequiredPendingPairState(req[r].action, session)
     IN req' = [ req EXCEPT ![r] =
          IF pendingState.ok
          THEN [ @ EXCEPT !.target =
                     creditsForGifOutput(pendingState.pendingCostUsd + req[r].est),
                   !.pc = "reserve" ]
          ELSE Finished(@, "rejected", "failed-precondition") ]
  /\ UNCHANGED << user, session, initBalance, purchaseVars, accountVars >>

ReserveError_NoOrderChecks(a, provisionalCharge) ==
  IF currentBalanceOf(user) < provisionalCharge THEN "resource-exhausted" ELSE "none"

ReserveError_NoCounterGuard(a, provisionalCharge) ==
  IF (a = "generate" \/ a = "refine") /\ ~readRequiredPendingPairState(a, session).ok
    THEN "failed-precondition"
  ELSE IF currentBalanceOf(user) < provisionalCharge THEN "resource-exhausted"
  ELSE "none"

ReserveError_NoBalanceCheck(a, provisionalCharge) ==
  IF ~(a = "generate" \/ a = "refine") THEN "none"
  ELSE IF ~readRequiredPendingPairState(a, session).ok THEN "failed-precondition"
  ELSE IF a = "generate" /\ (IF session.exists THEN session.pendingGenerate ELSE 0) < 1
    THEN "failed-precondition"
  ELSE IF a = "refine" /\ (IF session.exists THEN session.pendingRefine ELSE 0) < 1
    THEN "failed-precondition"
  ELSE "none"

\* reserveCreditsForAction: the error its transaction throws, if any
ReserveError(a, provisionalCharge) ==
  LET currentPendingGenerate == IF session.exists THEN session.pendingGenerate ELSE 0
      currentPendingRefine == IF session.exists THEN session.pendingRefine ELSE 0
      pendingGenerateDelta == IF a = "plan" THEN 1 ELSE IF a = "generate" THEN -1 ELSE 0
      pendingRefineDelta == IF a = "evaluate" THEN 1 ELSE IF a = "refine" THEN -1 ELSE 0
  IN IF (a = "generate" \/ a = "refine")
          /\ ~readRequiredPendingPairState(a, session).ok
       THEN "failed-precondition"
     ELSE IF pendingGenerateDelta < 0 /\ currentPendingGenerate < 1
       THEN "failed-precondition"
     ELSE IF pendingRefineDelta < 0 /\ currentPendingRefine < 1
       THEN "failed-precondition"
     ELSE IF currentBalanceOf(user) < provisionalCharge
       THEN "resource-exhausted"
     ELSE "none"

provisionalChargeOf(a, requestedReserve) ==
  IF a = "generate"
    THEN ceilCredits(Max(0, requestedReserve
                            - roundCreditsNonNegative(session.pendingPlanReservedCredits)))
  ELSE IF a = "refine"
    THEN ceilCredits(Max(0, requestedReserve
                            - roundCreditsNonNegative(session.pendingEvaluateReservedCredits)))
  ELSE requestedReserve

ReservedSession_RewritesCounters(a, provisionalCharge) ==
  LET pendingGenerateDelta == IF a = "plan" THEN 1 ELSE IF a = "generate" THEN -1 ELSE 0
      pendingRefineDelta == IF a = "evaluate" THEN 1 ELSE IF a = "refine" THEN -1 ELSE 0
      currentPlanReservedCredits ==
        roundCreditsNonNegative(session.pendingPlanReservedCredits)
      currentEvaluateReservedCredits ==
        roundCreditsNonNegative(session.pendingEvaluateReservedCredits)
      base == [ session EXCEPT !.exists = TRUE,
                  !.pendingGenerate = Max(0, pendingGenerateDelta),
                  !.pendingRefine = Max(0, pendingRefineDelta),
                  !.lastAction = a ]
  IN IF a = "plan"
       THEN [ base EXCEPT !.pendingPlanReservedCredits = provisionalCharge,
                          !.pendingPlanCostUsd = 0,
                          !.pendingPlanTokens = 0 ]
     ELSE IF a = "evaluate"
       THEN [ base EXCEPT !.pendingEvaluateReservedCredits = provisionalCharge,
                          !.pendingEvaluateCostUsd = 0,
                          !.pendingEvaluateTokens = 0 ]
     ELSE IF a = "generate"
       THEN [ base EXCEPT !.pendingPlanReservedCredits =
                roundCreditsNonNegative(currentPlanReservedCredits + provisionalCharge) ]
     ELSE [ base EXCEPT !.pendingEvaluateReservedCredits =
                roundCreditsNonNegative(currentEvaluateReservedCredits + provisionalCharge) ]

ReservedSession(a, provisionalCharge) ==
  LET currentPendingGenerate == IF session.exists THEN session.pendingGenerate ELSE 0
      currentPendingRefine == IF session.exists THEN session.pendingRefine ELSE 0
      pendingGenerateDelta == IF a = "plan" THEN 1 ELSE IF a = "generate" THEN -1 ELSE 0
      pendingRefineDelta == IF a = "evaluate" THEN 1 ELSE IF a = "refine" THEN -1 ELSE 0
      currentPlanReservedCredits ==
        roundCreditsNonNegative(session.pendingPlanReservedCredits)
      currentEvaluateReservedCredits ==
        roundCreditsNonNegative(session.pendingEvaluateReservedCredits)
      base == [ session EXCEPT !.exists = TRUE,
                  !.pendingGenerate = currentPendingGenerate + pendingGenerateDelta,
                  !.pendingRefine = currentPendingRefine + pendingRefineDelta,
                  !.lastAction = a ]
  IN IF a = "plan"
       THEN [ base EXCEPT !.pendingPlanReservedCredits = provisionalCharge,
                          !.pendingPlanCostUsd = 0,
                          !.pendingPlanTokens = 0 ]
     ELSE IF a = "evaluate"
       THEN [ base EXCEPT !.pendingEvaluateReservedCredits = provisionalCharge,
                          !.pendingEvaluateCostUsd = 0,
                          !.pendingEvaluateTokens = 0 ]
     ELSE IF a = "generate"
       THEN [ base EXCEPT !.pendingPlanReservedCredits =
                roundCreditsNonNegative(currentPlanReservedCredits + provisionalCharge) ]
     ELSE [ base EXCEPT !.pendingEvaluateReservedCredits =
                roundCreditsNonNegative(currentEvaluateReservedCredits + provisionalCharge) ]

reservationWrites_BeforeBalanceCheck(error) == error # "failed-precondition"

\* The tx.set calls of reserveCreditsForAction come after every throw of
\* its transaction: they happen only when no guard threw.
reservationWrites(error) == error = "none"

Reserve(r) ==
  /\ req[r].pc = "reserve"
  /\ LET a == req[r].action
         requestedReserve == roundCreditsNonNegative(req[r].target)
         provisionalCharge == provisionalChargeOf(a, requestedReserve)
         error == ReserveError(a, provisionalCharge)
         newBalance == currentBalanceOf(user) - provisionalCharge
         reservedUser == [ WithBalance(user, newBalance) EXCEPT
                             !.totalConsumed = @ + provisionalCharge,
                             !.totalPurchased = IF user.exists THEN @ ELSE 0 ]
     IN IF error # "none"
          THEN /\ req' = [ req EXCEPT ![r] = Finished(@, "rejected", error) ]
               /\ user' = IF reservationWrites(error) THEN reservedUser ELSE user
               /\ session' = IF reservationWrites(error)
                               THEN ReservedSession(a, provisionalCharge)
                               ELSE session
          ELSE /\ user' = reservedUser
               /\ session' = ReservedSession(a, provisionalCharge)
               /\ req' = Commit(r,
                    [ req[r] EXCEPT !.pc = "call",
                        !.charged = provisionalCharge,
                        !.reserved = TRUE,
                        !.reservationForRollback = TRUE,
                        !.balBefore = currentBalanceOf(user),
                        !.pgBefore = session.pendingGenerate,
                        !.prBefore = session.pendingRefine,
                        !.resBefore =
                          session[reservationFieldsForAction(a).pendingReservedCreditsField],
                        !.clean = TRUE,
                        !.net = currentBalanceOf(user) - user'.balance ])
  /\ UNCHANGED << initBalance, purchaseVars, accountVars >>

usageMetricsOf_NoFallback(variant, a, e, k) == [usd |-> k, tokens |-> k]

\* The external model call (generateContent / generateContentStream) returns
\* with the usage it reports, or throws.
\* The usage metrics the handler bills for a collaborator that reports a
\* usage of k cost units.  generateWithTokens takes the reported counts, 0
\* where there are none.  streamGenerateWithTokens takes them when one of
\* them is positive (hasUsageMetadata) and otherwise the estimate:
\* estimatedInputTokens and OUTPUT_ESTIMATES[action], which cost the whole
\* pair estimate for generate and refine (no follow-up share) and about
\* half of it for plan and evaluate.
usageMetricsOf(variant, a, e, k) ==
  IF variant = "stream" /\ k = 0
    THEN LET estimated == IF isChargeAction(a) THEN (e + 1) \div 2 ELSE e
         IN [usd |-> estimated, tokens |-> estimated]
    ELSE [usd |-> k, tokens |-> k]

ModelOk(r, k) ==
  /\ req[r].pc = "call"
  /\ req' = [ req EXCEPT ![r] =
       [ @ EXCEPT !.pc = "settle",
                  !.usage = usageMetricsOf(req[r].variant, req[r].action,
                                            req[r].est, k) ] ]
  /\ UNCHANGED << user, session, initBalance, purchaseVars, accountVars >>

ModelFail(r) ==
  /\ req[r].pc = "call"
  /\ req' = [ req EXCEPT ![r] = [ @ EXCEPT !.pc = "rollback", !.err = "model" ] ]
  /\ UNCHANGED << user, session, initBalance, purchaseVars, accountVars >>

\* streamGenerateWithTokens: a throw between the reservation and the inner
\* try block (response headers, first status event) goes straight to the
\* outer catch block, reservationForRollback still set.
StreamSetupFail(r) ==
  /\ req[r].pc = "call"
  /\ req[r].variant = "stream"
  /\ req' = [ req EXCEPT ![r] = [ @ EXCEPT !.pc = "outerCatch", !.err = "internal" ] ]
  /\ UNCHANGED << user, session, initBalance, purchaseVars, accountVars >>

afterSettlement_Throws(rec) == [ rec EXCEPT !.pc = "rollback", !.err = "internal" ]

\* What follows finalizeBillingAndPersist in the try block: the handler
\* builds its answer from the settlement (the return value, or the complete
\* event and res.end()) and is done; nothing there throws into the catch
\* block.
afterSettlement(rec) == Finished(rec, "done", "none")

\* settleGifOrEvaluate: the additional debit of a second-phase settlement
additionalCreditsOf(pendingState, usage) ==
  LET pairCostUsd == pendingState.pendingCostUsd + usage.usd
      pairCredits == computeGifBilling(pairCostUsd)
  IN ceilCredits(Max(0, pairCredits - pendingState.pendingReservedCredits))

stashPendingPair_TakesCounter(s, a, usage) ==
  IF a = "plan"
    THEN [ s EXCEPT !.exists = TRUE,
                    !.pendingGenerate = Max(0, @ - 1),
                    !.pendingPlanCostUsd = usage.usd,
                    !.pendingPlanTokens = usage.tokens ]
    ELSE [ s EXCEPT !.exists = TRUE,
                    !.pendingRefine = Max(0, @ - 1),
                    !.pendingEvaluateCostUsd = usage.usd,
                    !.pendingEvaluateTokens = usage.tokens ]

\* settleActionBilling for plan and evaluate: one merge write to the
\* session, of the call's cost and token count; nothing is written to the
\* user.
stashPendingPair(s, a, usage) ==
  IF a = "plan"
    THEN [ s EXCEPT !.exists = TRUE,
                    !.pendingPlanCostUsd = usage.usd,
                    !.pendingPlanTokens = usage.tokens ]
    ELSE [ s EXCEPT !.exists = TRUE,
                    !.pendingEvaluateCostUsd = usage.usd,
                    !.pendingEvaluateTokens = usage.tokens ]

\* settleActionBilling without rollbackOnly (via finalizeBillingAndPersist):
\* one transaction.  A stale pair state makes it throw into the handler's
\* catch block.
Settle(r) ==
  /\ req[r].pc = "settle"
  /\ LET a == req[r].action
         usage == req[r].usage
         currentBalance == currentBalanceOf(user)
     IN IF a = "plan" \/ a = "evaluate"
          THEN /\ session' = stashPendingPair(session, a, usage)
               /\ user' = user
               /\ req' = Commit(r, afterSettlement(req[r]))
        ELSE LET fields == pendingPairFieldsForAction(a)
                 pendingState == readRequiredPendingPairState(a, session)
                 additionalCredits == additionalCreditsOf(pendingState, usage)
                 newBalance == currentBalance - additionalCredits
             IN IF ~pendingState.ok
                  THEN /\ req' = [ req EXCEPT ![r] =
                            [ @ EXCEPT !.pc = "rollback", !.err = "failed-precondition" ] ]
                       /\ UNCHANGED << user, session >>
                  ELSE /\ user' = [ WithBalance(user, newBalance) EXCEPT
                                      !.totalConsumed = @ + additionalCredits ]
                       /\ session' = [ session EXCEPT !.exists = TRUE,
                                         ![fields.pendingCostUsdField] = 0,
                                         ![fields.pendingTokensField] = 0,
                                         ![fields.pendingReservedCreditsField] = 0 ]
                       /\ req' = Commit(r, afterSettlement(
                            [ req[r] EXCEPT !.additional = additionalCredits,
                                            !.net = @ + currentBalance - user'.balance ]))
  /\ UNCHANGED << initBalance, purchaseVars, accountVars >>

RollbackUser_KeepsConsumed(u, refundCredits) ==
  IF refundCredits > 0
    THEN [ WithBalance(u, currentBalanceOf(u) + refundCredits) EXCEPT
             !.totalPurchased = IF u.exists THEN @ ELSE 0 ]
    ELSE u

\* settleActionBilling with rollbackOnly: the refund written to the user
RollbackUser(u, refundCredits) ==
  IF refundCredits > 0
    THEN [ WithBalance(u, currentBalanceOf(u) + refundCredits) EXCEPT
             !.totalConsumed = @ - refundCredits,
             !.totalPurchased = IF u.exists THEN @ ELSE 0 ]
    ELSE u

\* settleActionBilling with rollbackOnly: the session update
RollbackSession_CountersKept(s, a, refundCredits) ==
  LET rollbackFields == reservationFieldsForAction(a)
      currentReserved ==
        roundCreditsNonNegative(s[rollbackFields.pendingReservedCreditsField])
  IN [ s EXCEPT !.exists = TRUE,
         ![rollbackFields.pendingReservedCreditsField] =
             roundCreditsNonNegative(currentReserved - refundCredits),
         !.lastFailedAction = a ]

RollbackSession(s, a, refundCredits) ==
  LET currentPendingGenerate == IF s.exists THEN s.pendingGenerate ELSE 0
      currentPendingRefine == IF s.exists THEN s.pendingRefine ELSE 0
      pendingGenerateDelta == IF a = "plan" THEN -1 ELSE IF a = "generate" THEN 1 ELSE 0
      pendingRefineDelta == IF a = "evaluate" THEN -1 ELSE IF a = "refine" THEN 1 ELSE 0
      rollbackFields == reservationFieldsForAction(a)
      currentReserved ==
        roundCreditsNonNegative(s[rollbackFields.pendingReservedCreditsField])
      base == [ s EXCEPT !.exists = TRUE,
                  !.pendingGenerate = Max(0, currentPendingGenerate + pendingGenerateDelta),
                  !.pendingRefine = Max(0, currentPendingRefine + pendingRefineDelta),
                  ![rollbackFields.pendingReservedCreditsField] =
                      roundCreditsNonNegative(currentReserved - refundCredits),
                  !.lastFailedAction = a ]
  IN IF a = "plan" \/ a = "evaluate"
       THEN [ base EXCEPT ![rollbackFields.pendingCostUsdField] = 0,
                          ![rollbackFields.pendingTokensField] = 0 ]
       ELSE base

\* rollbackFailedReservation in the catch block of generateWithTokens and in
\* the inner catch block of streamGenerateWithTokens (which then clears
\* reservationForRollback and rethrows to the outer catch block).
Rollback(r) ==
  /\ req[r].pc = "rollback"
  /\ LET refundCredits == roundCreditsNonNegative(req[r].charged)
     IN /\ user' = RollbackUser(user, refundCredits)
        /\ session' = RollbackSession(session, req[r].action, refundCredits)
        /\ req' = Commit(r,
             LET rec == [ req[r] EXCEPT !.reservationForRollback = FALSE,
                                        !.net = @ + currentBalanceOf(user) - user'.balance,
                                        !.rollbacks = @ + 1 ]
             IN IF req[r].variant = "stream"
                  THEN [ rec EXCEPT !.pc = "outerCatch" ]
                  ELSE Finished(rec, "failed", rec.err))
  /\ UNCHANGED << initBalance, purchaseVars, accountVars >>

outerCatchRollsBack_Always(rec) == TRUE

\* if (reservationForRollback && uidForLog && actionForLog && sessionIdForLog)
outerCatchRollsBack(rec) == rec.reservationForRollback

\* The outer catch block of streamGenerateWithTokens: rolls back only when
\* reservationForRollback is still set, then writes the error event.
OuterCatch(r) ==
  /\ req[r].pc = "outerCatch"
  /\ IF outerCatchRollsBack(req[r])
       THEN LET refundCredits == roundCreditsNonNegative(req[r].charged)
            IN /\ user' = RollbackUser(user, refundCredits)
               /\ session' = RollbackSession(session, req[r].action, refundCredits)
               /\ req' = Commit(r, Finished(
                    [ req[r] EXCEPT !.reservationForRollback = FALSE,
                                    !.net = @ + currentBalanceOf(user) - user'.balance,
                                    !.rollbacks = @ + 1 ],
                    "failed", req[r].err))
       ELSE /\ req' = [ req EXCEPT ![r] = Finished(@, "failed", @.err) ]
            /\ UNCHANGED << user, session >>
  /\ UNCHANGED << initBalance, purchaseVars, accountVars >>

\* ------------------------------------------------------ purchase creditor
\* verifyAndCreditPurchase for one purchase token and one product
\* (token_pack_tier1).  Every await of the handler is one step.
PurInFlight == { q \in Pur : pur[q].pc # "idle" /\ pur[q].result = "none" }

Returned(result, error, balance, alreadyCredited) ==
  [ IdlePur EXCEPT !.pc = "returned", !.result = result, !.error = error,
                   !.balance = balance, !.alreadyCredited = alreadyCredited ]

\* the response of handler p, or the error it throws
Ret(p, result, error, balance, alreadyCredited) ==
  [ Returned(result, error, balance, alreadyCredited) EXCEPT !.uid = pur[p].uid ]

\* the users document of a caller
userOf(uid) == IF uid = "u1" THEN user ELSE user2

createSucceeds_Upsert(doc) == TRUE

\* purchaseRef.create(...): succeeds only when the document does not exist.
createSucceeds(doc) == ~doc.exists

safeBalance_Granted(existing) == existing.creditsGranted

\* safeBalance of the completed branch: the stored balanceAfter (a number
\* on every record that reaches status "completed").
safeBalance(existing) == existing.balanceAfter

pCreateAs(p, uid) ==
  /\ pur[p].pc = "idle"
  /\ \A q \in Pur : q < p => pur[q].pc # "idle"
  /\ IF createSucceeds(purchase)
       THEN /\ purchase' = [ NoPurchase EXCEPT !.exists = TRUE, !.uid = uid,
                                               !.status = "processing" ]
            /\ pur' = [ pur EXCEPT ![p].pc = "verify", ![p].uid = uid ]
       ELSE /\ pur' = [ pur EXCEPT ![p].pc = "existing", ![p].uid = uid ]
            /\ UNCHANGED purchase
  /\ UNCHANGED << user, billingVars, initBalance, storeConsumed, credited, secondVars, accountVars >>

\* a request of the owner of the user document
pCreate(p) == pCreateAs(p, "u1")

\* if (existing.uid && existing.uid !== uid): every record carries a uid
uidMismatch(existing, uid) == existing.uid # uid

existingBranch_CompletedRetried(existing) ==
  IF existing.status \in {"completed", "failed"} THEN "takeover"
  ELSE IF existing.stale THEN "takeover" ELSE "aborted"

existingBranch_ProcessingTakenOver(existing) ==
  IF existing.status = "completed"
    THEN IF existing.consumePending THEN "retryConsume" ELSE "return"
  ELSE "takeover"

\* The branch taken on the snapshot read after create() reported
\* already-exists.
existingBranch(existing) ==
  IF existing.status = "completed"
    THEN IF existing.consumePending THEN "retryConsume" ELSE "return"
  ELSE IF existing.status = "failed"
    THEN "takeover"
  ELSE IF existing.stale THEN "takeover" ELSE "aborted"

pExisting(p) ==
  /\ pur[p].pc = "existing"
  /\ LET branch == existingBranch(purchase)
     IN pur' = [ pur EXCEPT ![p] =
          IF uidMismatch(purchase, pur[p].uid)
            THEN Ret(p, "error", "permission-denied", 0, FALSE)
          ELSE IF branch = "return"
            THEN Ret(p, "ok", "none", safeBalance(purchase), TRUE)
          ELSE IF branch = "aborted"
            THEN Ret(p, "error", "aborted", 0, FALSE)
          ELSE [ @ EXCEPT !.pc = branch, !.newBalance = safeBalance(purchase) ] ]
  /\ UNCHANGED << user, billingVars, initBalance, purchase, storeConsumed, credited, secondVars, accountVars >>

\* The best-effort consume of a completed purchase with consumePending.
pRetryConsume(p, ok) ==
  /\ pur[p].pc = "retryConsume"
  /\ IF ok
       THEN /\ storeConsumed' = TRUE
            /\ pur' = [ pur EXCEPT ![p].pc = "retryWrite" ]
       ELSE /\ pur' = [ pur EXCEPT ![p] = Ret(p, "ok", "none", @.newBalance, TRUE) ]
            /\ UNCHANGED storeConsumed
  /\ UNCHANGED << user, billingVars, initBalance, purchase, credited, secondVars, accountVars >>

pRetryWrite_KeepsPending(p) ==
  /\ pur[p].pc = "retryWrite"
  /\ purchase' = [ purchase EXCEPT !.stale = FALSE ]
  /\ pur' = [ pur EXCEPT ![p] = Ret(p, "ok", "none", @.newBalance, TRUE) ]
  /\ UNCHANGED << user, billingVars, initBalance, storeConsumed, credited, secondVars, accountVars >>

\* purchaseRef.set({consumePending: false, ...}, {merge: true}) after the
\* consume of the retry succeeded, then the idempotent answer.
pRetryWrite(p) ==
  /\ pur[p].pc = "retryWrite"
  /\ purchase' = [ purchase EXCEPT !.consumePending = FALSE, !.stale = FALSE ]
  /\ pur' = [ pur EXCEPT ![p] = Ret(p, "ok", "none", @.newBalance, TRUE) ]
  /\ UNCHANGED << user, billingVars, initBalance, storeConsumed, credited, secondVars, accountVars >>

\* purchaseRef.set({status: "processing", updatedAt}, {merge: true}) on a
\* failed or stale record.
pTakeover(p) ==
  /\ pur[p].pc = "takeover"
  /\ purchase' = [ purchase EXCEPT !.exists = TRUE, !.status = "processing",
                                   !.stale = FALSE ]
  /\ pur' = [ pur EXCEPT ![p].pc = "verify" ]
  /\ UNCHANGED << user, billingVars, initBalance, storeConsumed, credited, secondVars, accountVars >>

accountMismatch_Ignored(acct, uid) == FALSE

\* obfuscatedExternalAccountId is set and differs from the caller's uid
accountMismatch(acct, uid) == acct # "none" /\ acct # uid

\* purchases.products.get, and the checks on its answer up to the
\* consumptionState test.  The account id the store holds for the purchase
\* is the same in every answer.
pVerify(p, answer, acct) ==
  /\ pur[p].pc = "verify"
  /\ storeAccountId \in {"unknown", acct}
  /\ storeAccountId' = IF answer = "throws" THEN storeAccountId ELSE acct
  /\ pur' = [ pur EXCEPT ![p] =
       IF answer = "throws" THEN [ @ EXCEPT !.pc = "fail", !.error = "internal" ]
       ELSE IF answer = "notPurchased"
         THEN [ @ EXCEPT !.pc = "fail", !.error = "failed-precondition" ]
       ELSE IF accountMismatch(acct, pur[p].uid)
         THEN [ @ EXCEPT !.pc = "fail", !.error = "permission-denied" ]
       ELSE IF storeConsumed THEN [ @ EXCEPT !.pc = "consumedRead" ]
       ELSE [ @ EXCEPT !.pc = "credit" ] ]
  /\ UNCHANGED << user, billingVars, initBalance, purchase, storeConsumed, credited, user2, accountVars >>

\* consumptionState === 1: getUserBalance, then completed with no credit.
pConsumedRead(p) ==
  /\ pur[p].pc = "consumedRead"
  /\ pur' = [ pur EXCEPT ![p].pc = "consumedWrite",
                         ![p].newBalance = currentBalanceOf(userOf(pur[p].uid)) ]
  /\ UNCHANGED << user, billingVars, initBalance, purchase, storeConsumed, credited, secondVars, accountVars >>

consumedRecord_StillProcessing(doc, uid, currentBalance) ==
  [ doc EXCEPT !.exists = TRUE, !.uid = uid, !.stale = FALSE ]

\* "Mark as completed-without-credit to prevent duplicate grants."
consumedRecord(doc, uid, currentBalance) ==
  [ doc EXCEPT !.exists = TRUE, !.uid = uid, !.status = "completed",
               !.creditsGranted = 0, !.balanceAfter = currentBalance,
               !.stale = FALSE ]

pConsumedWrite(p) ==
  /\ pur[p].pc = "consumedWrite"
  /\ purchase' = consumedRecord(purchase, pur[p].uid, pur[p].newBalance)
  /\ pur' = [ pur EXCEPT ![p] = Ret(p, "ok", "none", @.newBalance, TRUE) ]
  /\ UNCHANGED << user, billingVars, initBalance, storeConsumed, credited, secondVars, accountVars >>

\* The credit transaction on the user document.
creditedUser_FromPurchased(u, creditsToGrant) ==
  [ WithBalance(u, (IF u.exists THEN u.totalPurchased ELSE 0) + creditsToGrant) EXCEPT
      !.totalPurchased = (IF u.exists THEN @ ELSE 0) + creditsToGrant,
      !.totalConsumed = IF u.exists THEN @ ELSE 0 ]

\* the credit transaction: balance and totalPurchased go up by the grant
creditedUser(u, creditsToGrant) ==
  [ WithBalance(u, currentBalanceOf(u) + creditsToGrant) EXCEPT
      !.totalPurchased = (IF u.exists THEN @ ELSE 0) + creditsToGrant,
      !.totalConsumed = IF u.exists THEN @ ELSE 0 ]

pCredit(p) ==
  /\ pur[p].pc = "credit"
  /\ IF pur[p].uid = "u1"
       THEN /\ user' = creditedUser(user, GIF_PACK_TIER1)
            /\ user2' = user2
       ELSE /\ user2' = creditedUser(user2, GIF_PACK_TIER1)
            /\ user' = user
  /\ credited' = credited + GIF_PACK_TIER1
  /\ pur' = [ pur EXCEPT ![p].pc = "complete",
                         ![p].newBalance = IF pur[p].uid = "u1" THEN user'.balance
                                                               ELSE user2'.balance ]
  /\ req' = [ q \in Req |-> [ req[q] EXCEPT !.clean = FALSE ] ]
  /\ UNCHANGED << session, initBalance, purchase, storeConsumed, storeAccountId, accountVars >>

\* "Persist completion immediately after credit"
pComplete(p) ==
  /\ pur[p].pc = "complete"
  /\ purchase' = [ purchase EXCEPT !.exists = TRUE, !.uid = pur[p].uid,
                     !.status = "completed",
                     !.creditsGranted = GIF_PACK_TIER1,
                     !.balanceAfter = pur[p].newBalance,
                     !.consumePending = TRUE, !.stale = FALSE ]
  /\ pur' = [ pur EXCEPT ![p].pc = "consume" ]
  /\ UNCHANGED << user, billingVars, initBalance, storeConsumed, credited, secondVars, accountVars >>

\* consumePurchase after the credit: an "already consumed" answer counts as
\* success.
pConsume(p, ok) ==
  /\ pur[p].pc = "consume"
  /\ storeConsumed' = (storeConsumed \/ ok)
  /\ pur' = [ pur EXCEPT ![p].pc = IF ok THEN "consumeOk" ELSE "consumeFailed" ]
  /\ UNCHANGED << user, billingVars, initBalance, purchase, credited, secondVars, accountVars >>

pConsumeWrite(p) ==
  /\ pur[p].pc \in {"consumeOk", "consumeFailed"}
  /\ purchase' = [ purchase EXCEPT !.exists = TRUE,
                     !.consumePending = (pur[p].pc = "consumeFailed"),
                     !.stale = FALSE ]
  /\ pur' = [ pur EXCEPT ![p] = Ret(p, "ok", "none", @.newBalance, FALSE) ]
  /\ UNCHANGED << user, billingVars, initBalance, storeConsumed, credited, secondVars, accountVars >>

\* The outer catch block: persist status "failed", then rethrow.
failedRecord_StillProcessing(doc, safeMessage) ==
  [ doc EXCEPT !.exists = TRUE, !.lastError = safeMessage, !.stale = FALSE ]

\* purchaseRef.set({status: "failed", lastError, updatedAt}, {merge: true})
failedRecord(doc, safeMessage) ==
  [ doc EXCEPT !.exists = TRUE, !.status = "failed",
               !.lastError = safeMessage, !.stale = FALSE ]

pFail(p) ==
  /\ pur[p].pc = "fail"
  /\ purchase' = failedRecord(purchase, pur[p].error)
  /\ pur' = [ pur EXCEPT ![p] = Ret(p, "error", @.error, 0, FALSE) ]
  /\ UNCHANGED << user, billingVars, initBalance, storeConsumed, credited, secondVars, accountVars >>

\* The platform ends a handler at one of its awaits (the function sets no
\* timeoutSeconds option, so the platform's default timeout applies).
pAbandon(p) ==
  /\ pur[p].pc \notin {"idle", "returned", "abandoned"}
  /\ pur' = [ pur EXCEPT ![p] = [ IdlePur EXCEPT !.pc = "abandoned", !.uid = pur[p].uid,
                                                 !.result = "abandoned" ] ]
  /\ UNCHANGED << user, billingVars, initBalance, purchase, storeConsumed, credited, secondVars, accountVars >>

\* More than five minutes pass since the record's updatedAt
\* (Date.now() - updatedAtMs > 5 * 60 * 1000 from now on).
TimePasses ==
  /\ purchase.exists
  /\ ~purchase.stale
  /\ purchase' = [ purchase EXCEPT !.stale = TRUE ]
  /\ UNCHANGED << user, billingVars, initBalance, pur, storeConsumed, credited, secondVars, accountVars >>

\* The same, where every handler ends (returns or is ended by the platform)
\* within the function timeout, which is shorter than the five minutes.
TimePassesAfterTimeout ==
  /\ PurInFlight = {}
  /\ TimePasses

\* every step of a handler after its create() call
HandlerSteps ==
  \/ \E p \in Pur : pExisting(p)
  \/ \E p \in Pur, ok \in BOOLEAN : pRetryConsume(p, ok)
  \/ \E p \in Pur : pRetryWrite(p)
  \/ \E p \in Pur : pTakeover(p)
  \/ \E p \in Pur, answer \in StoreAnswers, acct \in StoreAccountIds :
       pVerify(p, answer, acct)
  \/ \E p \in Pur : pConsumedRead(p)
  \/ \E p \in Pur : pConsumedWrite(p)
  \/ \E p \in Pur : pCredit(p)
  \/ \E p \in Pur : pComplete(p)
  \/ \E p \in Pur, ok \in BOOLEAN : pConsume(p, ok)
  \/ \E p \in Pur : pConsumeWrite(p)
  \/ \E p \in Pur : pFail(p)

PurchaseNext ==
  \/ \E p \in Pur : pCreate(p)
  \/ HandlerSteps

\* Handlers of the token that all run to their end, within five minutes.
SpecHandlers == Init /\ [][PurchaseNext]_vars

\* The same handlers, where a handler whose consumePurchase call has
\* resolved goes on to the write that follows it (an awaited call that
\* returned is followed by the next statement of the handler).
SpecConsumeRetry ==
  /\ Init /\ [][PurchaseNext]_vars
  /\ WF_vars(\E p \in Pur : pRetryWrite(p))

\* Handlers of the token called by the owner of the user document and by a
\* second account.
SpecUsers ==
  Init /\ [][(\E p \in Pur, uid \in Uids : pCreateAs(p, uid)) \/ HandlerSteps]_vars

\* Handlers of the token that end (return or are ended by the platform)
\* within the function timeout; any time may pass between them.
SpecTimely ==
  Init /\ [][PurchaseNext \/ (\E p \in Pur : pAbandon(p)) \/ TimePassesAfterTimeout]_vars

\* Handlers of the token with no bound on how long a handler runs.
SpecPurchase ==
  Init /\ [][PurchaseNext \/ (\E p \in Pur : pAbandon(p)) \/ TimePasses]_vars

\* ------------------------------------------------------------ getBalance
\* getBalance, first await: db.collection("users").doc(uid).get() outside
\* any transaction.  A caller with a document gets its balance.
gbRead(g, uid) ==
  /\ gb[g].pc = "idle"
  /\ \A h \in Get : h < g => gb[h].pc # "idle"
  /\ gb' = [ gb EXCEPT ![g] =
       IF userOf(uid).exists
         THEN [ pc |-> "returned", uid |-> uid,
                result |-> roundCreditsNonNegative(userOf(uid).balance) ]
         ELSE [ pc |-> "create", uid |-> uid, result |-> 0 ] ]
  /\ UNCHANGED << user, user2, billingVars, initBalance, purchase, pur,
                  storeConsumed, credited, storeAccountId, identity, del, twin, calc, streamVars >>

\* getBalance, second await: set() without merge of the zero-balance
\* document, whatever the document holds by now.
gbCreate(g) ==
  /\ gb[g].pc = "create"
  /\ IF gb[g].uid = "u1"
       THEN user' = UserDoc(0) /\ user2' = user2
       ELSE user2' = UserDoc(0) /\ user' = user
  /\ gb' = [ gb EXCEPT ![g].pc = "returned", ![g].result = 0 ]
  /\ req' = [ q \in Req |-> [ req[q] EXCEPT !.clean = FALSE ] ]
  /\ UNCHANGED << session, initBalance, purchase, pur, storeConsumed, credited,
                  storeAccountId, identity, del, twin, calc, streamVars >>

\* First-time and returning callers of getBalance next to the purchase
\* requests of both accounts.
SpecGetBalance ==
  Init /\ [][ \/ \E p \in Pur, uid \in Uids : pCreateAs(p, uid)
              \/ HandlerSteps
              \/ \E g \in Get, uid \in Uids : gbRead(g, uid)
              \/ \E g \in Get : gbCreate(g) ]_vars

\* ------------------------------------------------------- deleteMyAccount
\* deleteMyAccount of the owner of the user document (uid u1), one step per
\* await.  The records it looks for are the purchase record with uid u1 and
\* the generation session of u1.
OwnedPurchases == purchase.exists /\ purchase.uid = "u1"
OwnedSessions == session.exists

\* admin.auth().deleteUser(uid), the first await of the try block
dAuth(ok) ==
  /\ del.pc = "idle"
  /\ identity
  /\ identity' = ~ok
  /\ del' = [ del EXCEPT !.pc = IF ok THEN "purchasesQuery" ELSE "failed" ]
  /\ UNCHANGED << user, billingVars, initBalance, purchaseVars, gb, twin, calc, streamVars >>

\* purchases where uid == uid, limit 200: get()
dPurchasesQuery ==
  /\ del.pc = "purchasesQuery"
  /\ del' = [ del EXCEPT !.pc = IF OwnedPurchases THEN "purchasesCommit"
                                                   ELSE "sessionsQuery" ]
  /\ UNCHANGED << user, billingVars, initBalance, purchaseVars, identity, gb, twin, calc, streamVars >>

\* batch.delete of the documents of the snapshot, batch.commit()
dPurchasesCommit ==
  /\ del.pc = "purchasesCommit"
  /\ purchase' = NoPurchase
  /\ del' = [ del EXCEPT !.pc = "purchasesQuery" ]
  /\ UNCHANGED << user, billingVars, initBalance, pur, storeConsumed, credited,
                  secondVars, identity, gb, twin, calc, streamVars >>

\* generationSessions where uid == uid, limit 200: get()
dSessionsQuery ==
  /\ del.pc = "sessionsQuery"
  /\ del' = [ del EXCEPT !.pc = IF OwnedSessions THEN "sessionsCommit"
                                                  ELSE "userDelete" ]
  /\ UNCHANGED << user, billingVars, initBalance, purchaseVars, identity, gb, twin, calc, streamVars >>

dSessionsCommit ==
  /\ del.pc = "sessionsCommit"
  /\ session' = NoSession
  /\ del' = [ del EXCEPT !.pc = "sessionsQuery" ]
  /\ req' = [ q \in Req |-> [ req[q] EXCEPT !.clean = FALSE ] ]
  /\ UNCHANGED << user, initBalance, purchaseVars, identity, gb, twin, calc, streamVars >>

\* db.collection("users").doc(uid).delete(), then return {deleted: true}
dUserDelete ==
  /\ del.pc = "userDelete"
  /\ user' = NoUser
  /\ del' = [ del EXCEPT !.pc = "returned" ]
  /\ req' = [ q \in Req |-> [ req[q] EXCEPT !.clean = FALSE ] ]
  /\ UNCHANGED << session, initBalance, purchaseVars, identity, gb, twin, calc, streamVars >>

\* A Firestore call of the try block throws: the catch block answers with
\* HttpsError("internal") and nothing is undone.
dFail ==
  /\ del.pc \in {"purchasesQuery", "purchasesCommit", "sessionsQuery",
                  "sessionsCommit", "userDelete"}
  /\ del' = [ del EXCEPT !.pc = "failed" ]
  /\ UNCHANGED << user, billingVars, initBalance, purchaseVars, identity, gb, twin, calc, streamVars >>

DeleteSteps ==
  \/ \E ok \in BOOLEAN : dAuth(ok)
  \/ dPurchasesQuery
  \/ dPurchasesCommit
  \/ dSessionsQuery
  \/ dSessionsCommit
  \/ dUserDelete
  \/ dFail

\* One session's plan/generate sequence: the first request is the plan, the
\* later ones are generate requests, each started when the one before it
\* has ended.
SequenceStart(r, v, e) ==
  /\ InFlight = {}
  /\ Start(r, IF \A q \in Req : q >= r THEN "plan" ELSE "generate", v, e)

SequenceNext ==
  \/ \E r \in Req, v \in {"sync", "stream"}, e \in EstCosts : SequenceStart(r, v, e)
  \/ \E r \in Req : PreRead(r)
  \/ \E r \in Req : Reserve(r)
  \/ \E r \in Req, k \in UsageCosts : ModelOk(r, k)
  \/ \E r \in Req : ModelFail(r)
  \/ \E r \in Req : StreamSetupFail(r)
  \/ \E r \in Req : Settle(r)
  \/ \E r \in Req : Rollback(r)
  \/ \E r \in Req : OuterCatch(r)

\* A verifyAndCreditPurchase request called again only after it returned
\* (a client retry or a duplicate delivery of the same token).
pCreateRetry(p) ==
  /\ PurInFlight = {}
  /\ pCreate(p)

\* The steps of such a request.  It never finds the purchase consumed at
\* the store with the record not completed, so the consumed branch of the
\* verification is not among them.
RetrySteps ==
  \/ \E p \in Pur : pCreateRetry(p)
  \/ \E p \in Pur : pExisting(p)
  \/ \E p \in Pur, ok \in BOOLEAN : pRetryConsume(p, ok)
  \/ \E p \in Pur : pRetryWrite(p)
  \/ \E p \in Pur : pTakeover(p)
  \/ \E p \in Pur, answer \in StoreAnswers, acct \in StoreAccountIds :
       pVerify(p, answer, acct)
  \/ \E p \in Pur : pCredit(p)
  \/ \E p \in Pur : pComplete(p)
  \/ \E p \in Pur, ok \in BOOLEAN : pConsume(p, ok)
  \/ \E p \in Pur : pConsumeWrite(p)
  \/ \E p \in Pur : pFail(p)

\* The plan/generate sequence of one session with purchase-credit requests
\* for the same user interleaved at every point of it.
SpecInterleaved == Init /\ [][SequenceNext \/ RetrySteps]_vars

\* if (!request.auth) throw: a request is accepted from a signed-in user
SignedInPurchase(p) ==
  /\ identity
  /\ pCreateRetry(p)

SignedInStart(r, e) ==
  /\ identity
  /\ SequenceStart(r, "sync", e)

\* An account with a purchase record and a session, left by the purchase
\* requests and the plan/generate requests of the signed-in user, that is
\* deleted while requests may still be running.
SpecDelete ==
  Init /\ [][ \/ \E p \in Pur : SignedInPurchase(p)
              \/ \E p \in Pur : pExisting(p)
              \/ \E p \in Pur, ok \in BOOLEAN : pRetryConsume(p, ok)
              \/ \E p \in Pur : pRetryWrite(p)
              \/ \E p \in Pur : pTakeover(p)
              \/ \E p \in Pur, answer \in StoreAnswers, acct \in StoreAccountIds :
                   pVerify(p, answer, acct)
              \/ \E p \in Pur : pCredit(p)
              \/ \E p \in Pur : pComplete(p)
              \/ \E p \in Pur, ok \in BOOLEAN : pConsume(p, ok)
              \/ \E p \in Pur : pConsumeWrite(p)
              \/ \E p \in Pur : pFail(p)
              \/ \E r \in Req, e \in EstCosts : SignedInStart(r, e)
              \/ \E r \in Req : PreRead(r)
              \/ \E r \in Req : Reserve(r)
              \/ \E r \in Req, k \in UsageCosts : ModelOk(r, k)
              \/ \E r \in Req : Settle(r)
              \/ DeleteSteps ]_vars

\* ------------------------------------------------------ computeGifBilling
\* computeGifBilling(pairCostUsd) for a pair cost of j tenths of a raw
\* credit under a configured minimum.
BillPair(minBilled, j) ==
  /\ calc' = [ fn |-> "computeGifBilling", minBilled |-> minBilled, cost |-> j,
               billedCredits |-> gifBillingOf(minBilled, FineCurveTable[j + 1]).billedCredits,
               displayCredits |-> gifBillingOf(minBilled, FineCurveTable[j + 1]).displayCredits ]
  /\ UNCHANGED << user, billingVars, initBalance, purchaseVars, identity, gb, del, twin, streamVars >>

SpecBilling ==
  Init /\ [][\E minBilled \in MinBilledConfigs, j \in FineCosts : BillPair(minBilled, j)]_vars

\* ------------------------------------------- the two endpoints compared
\* One request after the other, each run twice from the same balance and
\* session: by generateWithTokens first and then, with the documents put
\* back, by streamGenerateWithTokens, the collaborator doing the same both
\* times (it reports a usage of outcome cost units, or it throws:
\* CollaboratorThrows).
CollaboratorThrows == -1
CollaboratorOutcomes == UsageCosts \cup {CollaboratorThrows}

Ended(r) == req[r].pc \in {"done", "failed", "rejected"}

TwinBegin(a, e, outcome) ==
  /\ twin.phase = "idle"
  /\ twin' = [ IdleTwin EXCEPT !.phase = "sync", !.action = a, !.est = e,
                               !.outcome = outcome,
                               !.preUser = user, !.preSession = session ]
  /\ UNCHANGED << user, billingVars, initBalance, purchaseVars, identity, gb, del, calc, streamVars >>

\* the request reaches the endpoint of this phase
TwinStart(r) ==
  /\ twin.phase \in {"sync", "stream"}
  /\ \A q \in Req : req[q].pc = "idle"
  /\ Start(r, twin.action, twin.phase, twin.est)

TwinModelOk(r) ==
  /\ twin.outcome # CollaboratorThrows
  /\ ModelOk(r, twin.outcome)

TwinModelFail(r) ==
  /\ twin.outcome = CollaboratorThrows
  /\ ModelFail(r)

\* generateWithTokens has answered: keep what it did and put the documents
\* back for streamGenerateWithTokens
TwinRewind(r) ==
  /\ twin.phase = "sync"
  /\ Ended(r)
  /\ twin' = [ twin EXCEPT !.phase = "stream",
                           !.syncUser = user, !.syncSession = session,
                           !.syncPc = req[r].pc, !.syncErr = req[r].err,
                           !.syncNet = req[r].net,
                           !.syncRollbacks = req[r].rollbacks ]
  /\ user' = twin.preUser
  /\ session' = twin.preSession
  /\ req' = [ q \in Req |-> IdleReq ]
  /\ UNCHANGED << initBalance, purchaseVars, identity, gb, del, calc, streamVars >>

\* streamGenerateWithTokens has answered too: on to the next request
TwinEnd(r) ==
  /\ twin.phase = "stream"
  /\ Ended(r)
  /\ twin' = IdleTwin
  /\ req' = [ q \in Req |-> IdleReq ]
  /\ UNCHANGED << user, session, initBalance, purchaseVars, identity, gb, del, calc, streamVars >>

SpecVariants ==
  Init /\ [][ \/ \E a \in BILLING_ACTIONS, e \in EstCosts,
                    outcome \in CollaboratorOutcomes : TwinBegin(a, e, outcome)
              \/ \E r \in Req : TwinStart(r)
              \/ \E r \in Req : PreRead(r)
              \/ \E r \in Req : Reserve(r)
              \/ \E r \in Req : TwinModelOk(r)
              \/ \E r \in Req : TwinModelFail(r)
              \/ \E r \in Req : Settle(r)
              \/ \E r \in Req : Rollback(r)
              \/ \E r \in Req : OuterCatch(r)
              \/ \E r \in Req : TwinRewind(r)
              \/ \E r \in Req : TwinEnd(r) ]_vars

Next ==
  \/ \E r \in Req, a \in BILLING_ACTIONS, v \in {"sync", "stream"}, e \in EstCosts :
       Start(r, a, v, e)
  \/ \E r \in Req : PreRead(r)
  \/ \E r \in Req : Reserve(r)
  \/ \E r \in Req, k \in UsageCosts : ModelOk(r, k)
  \/ \E r \in Req : ModelFail(r)
  \/ \E r \in Req : StreamSetupFail(r)
  \/ \E r \in Req : Settle(r)
  \/ \E r \in Req : Rollback(r)
  \/ \E r \in Req : OuterCatch(r)

Spec == Init /\ [][Next]_vars

\* ------------------------------------------------------ the input gateway
\* countResult.totalTokens of a request: none, small, and around the cap
InputTokenCounts == {0, 1, INPUT_TOKEN_CAP - 1, INPUT_TOKEN_CAP, INPUT_TOKEN_CAP + 1}

\* assertInputTokenCap: TRUE stands for the thrown invalid-argument error.
assertInputTokenCap(inputTokens) == inputTokens >= INPUT_TOKEN_CAP

\* validateAndBuildContents for a request whose input counts inputTokens
\* tokens, then (for plan and evaluate) the reserve target of
\* computeProvisionalReserve.  A request is made when the one before it has
\* ended.
GatewayStart(r, a, v, e, inputTokens) ==
  /\ InFlight = {}
  /\ req[r].pc = "idle"
  /\ \A q \in Req : q < r => req[q].pc # "idle"
  /\ req' = [ req EXCEPT ![r] =
       IF assertInputTokenCap(inputTokens)
         THEN [ Finished([ @ EXCEPT !.action = a, !.variant = v ],
                         "rejected", "invalid-argument")
                  EXCEPT !.inputTokens = inputTokens ]
         ELSE [ @ EXCEPT !.action = a, !.variant = v, !.est = e,
                  !.inputTokens = inputTokens,
                  !.target = IF isChargeAction(a) THEN creditsForGifOutput(e) ELSE 0,
                  !.pc = IF isChargeAction(a) THEN "reserve" ELSE "preread" ] ]
  /\ UNCHANGED << user, session, initBalance, purchaseVars, accountVars >>

SpecGateway ==
  Init /\ [][ \/ \E r \in Req, a \in BILLING_ACTIONS, v \in {"sync", "stream"},
                    e \in EstCosts, n \in InputTokenCounts : GatewayStart(r, a, v, e, n)
              \/ \E r \in Req : PreRead(r)
              \/ \E r \in Req : Reserve(r)
              \/ \E r \in Req, k \in UsageCosts : ModelOk(r, k)
              \/ \E r \in Req : ModelFail(r)
              \/ \E r \in Req : StreamSetupFail(r)
              \/ \E r \in Req : Settle(r)
              \/ \E r \in Req : Rollback(r)
              \/ \E r \in Req : OuterCatch(r) ]_vars

\* ------------------------------------------------ the streaming client
\* The response body as the client reads it: a sequence of elements, each a
\* line without its line feed (an event: line, a data: line, a comment
\* line) or one line feed.
LF == [ t |-> "lf", v |-> "" ]

\* What the server writes for one event: writeSseEvent, two lines and an
\* empty line; or the keep-alive comment ": ping ..." and an empty line.
SseText(ev) ==
  IF ev.event = "ping"
    THEN << [ t |-> "comment", v |-> "" ], LF, LF >>
    ELSE << [ t |-> "event", v |-> ev.event ], LF,
            [ t |-> "data", v |-> ev.data ], LF, LF >>

\* The events the server writes.  The data of an error event stands for its
\* message, which the server never leaves empty (error.message, or
\* "Generation failed").
ServerEvents ==
  { [ event |-> "status", data |-> "stage" ],
    [ event |-> "thought", data |-> "chunk" ],
    [ event |-> "complete", data |-> "result" ],
    [ event |-> "error", data |-> "Generation failed" ],
    [ event |-> "error", data |-> "Insufficient GIF credits" ],
    [ event |-> "ping", data |-> "" ] }

EventSeqs == UNION { [ 1..n -> ServerEvents ] : n \in 0..MaxEvents }

RECURSIVE BodyOf(_)
BodyOf(evs) ==
  IF evs = << >> THEN << >> ELSE SseText(Head(evs)) \o BodyOf(Tail(evs))

\* The events of evs whose text lies within the first cut elements.
RECURSIVE WholeEvents(_, _)
WholeEvents(evs, cut) ==
  IF evs = << >> \/ Len(SseText(Head(evs))) > cut
    THEN << >>
    ELSE << Head(evs) >> \o WholeEvents(Tail(evs), cut - Len(SseText(Head(evs))))

nextDelimiter_SingleLf(buffer) ==
  LET at == { i \in 1..Len(buffer) : buffer[i].t = "lf" }
  IN IF at = {} THEN [ index |-> 0, length |-> 0 ]
     ELSE [ index |-> CHOOSE i \in at : \A j \in at : i <= j, length |-> 1 ]

\* nextDelimiter: where the first empty line of the buffer starts (index 0:
\* there is none).  The server ends its lines with a line feed only.
nextDelimiter(buffer) ==
  LET at == { i \in 1..(Len(buffer) - 1) :
                buffer[i].t = "lf" /\ buffer[i + 1].t = "lf" }
  IN IF at = {} THEN [ index |-> 0, length |-> 0 ]
     ELSE [ index |-> CHOOSE i \in at : \A j \in at : i <= j, length |-> 2 ]

IsLine(x) == x.t \notin {"lf", "comment"}
IsEventLine(x) == x.t = "event"
IsDataLine(x) == x.t = "data"

\* parseSseEvent: the non-empty lines that are no comments; none: null; the
\* event name of the last event: line ("message" if there is none) and the
\* data of the data: lines.
parseSseEvent(rawEvent) ==
  LET lines == SelectSeq(rawEvent, IsLine)
      eventLines == SelectSeq(lines, IsEventLine)
      dataParts == SelectSeq(lines, IsDataLine)
  IN IF Len(lines) = 0
       THEN [ null |-> TRUE, event |-> "message", data |-> "" ]
       ELSE [ null |-> FALSE,
              event |-> IF eventLines = << >> \/ eventLines[Len(eventLines)].v = ""
                          THEN "message"
                          ELSE eventLines[Len(eventLines)].v,
              data |-> IF dataParts = << >> THEN ""
                       ELSE IF Len(dataParts) = 1 THEN dataParts[1].v
                       ELSE "joined" ]

\* if (streamError), if (!completeResult): null and "" are falsy
truthy(v) == v \notin {"null", ""}

\* consumeBuffer: every event of the buffer that is followed by an empty
\* line is taken out and handled; complete sets completeResult, error sets
\* streamError to the message (to "Generation failed" when there is none).
RECURSIVE consumeBuffer(_)
consumeBuffer(c) ==
  LET delimiter == nextDelimiter(c.buffer)
      rawEvent == SubSeq(c.buffer, 1, delimiter.index - 1)
      rest == SubSeq(c.buffer, delimiter.index + delimiter.length, Len(c.buffer))
      parsed == parseSseEvent(rawEvent)
  IN IF delimiter.index = 0 THEN c
     ELSE consumeBuffer(
       IF parsed.null THEN [ c EXCEPT !.buffer = rest ]
       ELSE IF parsed.event = "complete"
         THEN [ c EXCEPT !.buffer = rest,
                         !.completeResult = IF parsed.data = "" THEN "{}" ELSE parsed.data ]
       ELSE IF parsed.event = "error"
         THEN [ c EXCEPT !.buffer = rest,
                         !.streamError = IF parsed.data = "" THEN "Generation failed"
                                                             ELSE parsed.data ]
       ELSE [ c EXCEPT !.buffer = rest ])

\* fetch() answered 200 with a body: the server wrote the events evs, of
\* which the first cut elements arrive before the connection ends.
cFetch(evs, cut) ==
  /\ cli.pc = "idle"
  /\ cut \in 0..Len(BodyOf(evs))
  /\ cli' = [ IdleClient EXCEPT !.pc = "reading",
                                !.stream = SubSeq(BodyOf(evs), 1, cut),
                                !.received = WholeEvents(evs, cut) ]
  /\ UNCHANGED << user, session, req, initBalance, purchaseVars,
                  identity, gb, del, twin, calc, sse >>

\* if (streamError) break;
breaksOnError(c) == truthy(c.streamError)

\* reader.read() returns the next n elements of the body.
cRead(n) ==
  /\ cli.pc = "reading"
  /\ n \in 1..(Len(cli.stream) - cli.pos)
  /\ LET c == consumeBuffer(
                [ cli EXCEPT !.pos = @ + n,
                             !.buffer = @ \o SubSeq(cli.stream, cli.pos + 1, cli.pos + n) ])
     IN cli' = IF breaksOnError(c) THEN [ c EXCEPT !.pc = "ended" ] ELSE c
  /\ UNCHANGED << user, session, req, initBalance, purchaseVars,
                  identity, gb, del, twin, calc, sse >>

\* reader.read() returns done.
cDone ==
  /\ cli.pc = "reading"
  /\ cli.pos = Len(cli.stream)
  /\ cli' = [ cli EXCEPT !.pc = "ended" ]
  /\ UNCHANGED << user, session, req, initBalance, purchaseVars,
                  identity, gb, del, twin, calc, sse >>

\* After the loop: the decoder is flushed, the buffer consumed once more,
\* and the promise rejects with streamError, rejects for want of a complete
\* event, or resolves with completeResult.
cSettle ==
  /\ cli.pc = "ended"
  /\ LET c == consumeBuffer(cli)
     IN cli' = IF truthy(c.streamError)
                 THEN [ c EXCEPT !.pc = "rejected", !.thrown = c.streamError ]
               ELSE IF ~truthy(c.completeResult)
                 THEN [ c EXCEPT !.pc = "rejected",
                          !.thrown = "Generation stream ended before completion" ]
               ELSE [ c EXCEPT !.pc = "resolved" ]
  /\ UNCHANGED << user, session, req, initBalance, purchaseVars,
                  identity, gb, del, twin, calc, sse >>

\* The client is called again.
cReset ==
  /\ cli.pc \in {"resolved", "rejected"}
  /\ cli' = IdleClient
  /\ UNCHANGED << user, session, req, initBalance, purchaseVars,
                  identity, gb, del, twin, calc, sse >>

SpecClient ==
  Init /\ [][ \/ \E evs \in EventSeqs, cut \in 0..(5 * MaxEvents) : cFetch(evs, cut)
              \/ \E n \in 1..(5 * MaxEvents) : cRead(n)
              \/ cDone
              \/ cSettle
              \/ cReset ]_vars

\* ------------------------------------------- the streaming response (SSE)
\* streamGenerateWithTokens, one request after the other, with the response
\* it writes.  The billing steps are the ones above; between them stand the
\* writes to the response and the ticks of the keep-alive timer.
StreamRequest(r, e) ==
  /\ sse.r = 0 \/ sse.returned
  /\ SequenceStart(r, "stream", e)

\* let streamStarted = false; let heartbeat = null; ...
StreamLocals(r) ==
  /\ req[r].pc \in {"reserve", "preread"}
  /\ sse.r # r
  /\ sse' = [ NoResponse EXCEPT !.r = r ]
  /\ UNCHANGED << user, session, req, initBalance, purchaseVars,
                  identity, gb, del, twin, calc, cli >>

StreamPreRead(r) == sse.r = r /\ PreRead(r)

StreamReserve(r) == sse.r = r /\ Reserve(r)

\* The reservation returned: status 200 and the headers, streamStarted,
\* the status event of stage "reserved", setInterval.
StreamHeaders(r) ==
  /\ sse.r = r /\ req[r].pc = "call"
  /\ ~sse.streamStarted
  /\ sse' = [ sse EXCEPT !.streamStarted = TRUE,
                         !.events = Append(@, "status:reserved"),
                         !.heartbeat = TRUE ]
  /\ UNCHANGED << user, session, req, initBalance, purchaseVars,
                  identity, gb, del, twin, calc, cli >>

\* A throw while the headers are set, before streamStarted is.
StreamHeadersThrow(r) ==
  /\ sse.r = r /\ ~sse.streamStarted
  /\ StreamSetupFail(r)

\* generateContentStream resolved: the status event of stage "generating"
StreamGenerating(r) ==
  /\ sse.r = r /\ req[r].pc = "call"
  /\ sse.streamStarted /\ ~sse.generating
  /\ sse' = [ sse EXCEPT !.generating = TRUE,
                         !.events = Append(@, "status:generating") ]
  /\ UNCHANGED << user, session, req, initBalance, purchaseVars,
                  identity, gb, del, twin, calc, cli >>

\* A chunk of the model stream with a thought part or a text part.
StreamChunk(r, kind) ==
  /\ sse.r = r /\ req[r].pc = "call"
  /\ sse.generating /\ ~sse.loopEnded
  /\ sse.chunks < MaxChunks
  /\ sse' = [ sse EXCEPT !.chunks = @ + 1, !.events = Append(@, kind) ]
  /\ UNCHANGED << user, session, req, initBalance, purchaseVars,
                  identity, gb, del, twin, calc, cli >>

\* The model stream ends; k is the usage its chunks reported (0: none).
StreamLoopEnd(r, k) ==
  /\ sse.r = r /\ req[r].pc = "call"
  /\ sse.generating /\ ~sse.loopEnded
  /\ sse' = [ sse EXCEPT !.loopEnded = TRUE, !.usageMetadata = k ]
  /\ UNCHANGED << user, session, req, initBalance, purchaseVars,
                  identity, gb, del, twin, calc, cli >>

\* usageMetrics from the reported usage or the estimate
StreamUsage(r) ==
  /\ sse.r = r /\ sse.loopEnded
  /\ ModelOk(r, sse.usageMetadata)

\* generateContentStream or the iteration of the stream throws.
StreamThrow(r) ==
  /\ sse.r = r /\ sse.streamStarted /\ ~sse.loopEnded
  /\ ModelFail(r)

StreamSettle(r) == sse.r = r /\ Settle(r)

StreamRollback(r) == sse.r = r /\ Rollback(r)

\* The first statement of the outer catch block: clearInterval(heartbeat).
StreamClearInterval(r) ==
  /\ sse.r = r /\ req[r].pc = "outerCatch"
  /\ sse.heartbeat
  /\ sse' = [ sse EXCEPT !.heartbeat = FALSE ]
  /\ UNCHANGED << user, session, req, initBalance, purchaseVars,
                  identity, gb, del, twin, calc, cli >>

StreamOuterCatch(r) ==
  /\ sse.r = r /\ ~sse.heartbeat
  /\ OuterCatch(r)

hasUsageMetadata(k) == k > 0

StreamComplete_TimerRuns(r) ==
  /\ sse.r = r /\ req[r].pc = "done"
  /\ ~sse.returned
  /\ sse' = [ sse EXCEPT !.events = Append(@, "complete"),
                         !.usageEstimatedFallback = ~hasUsageMetadata(sse.usageMetadata),
                         !.writableEnded = TRUE,
                         !.returned = TRUE ]
  /\ UNCHANGED << user, session, req, initBalance, purchaseVars,
                  identity, gb, del, twin, calc, cli >>

\* The settlement returned: the complete event, res.end(), and the finally
\* block with its clearInterval.
StreamComplete(r) ==
  /\ sse.r = r /\ req[r].pc = "done"
  /\ ~sse.returned
  /\ sse' = [ sse EXCEPT !.events = Append(@, "complete"),
                         !.usageEstimatedFallback = ~hasUsageMetadata(sse.usageMetadata),
                         !.writableEnded = TRUE,
                         !.heartbeat = FALSE,
                         !.returned = TRUE ]
  /\ UNCHANGED << user, session, req, initBalance, purchaseVars,
                  identity, gb, del, twin, calc, cli >>

\* The HTTP status of an error that is thrown before the stream started.
httpCodeOf(error) ==
  IF error = "unauthenticated" THEN 401
  ELSE IF error = "resource-exhausted" THEN 429
  ELSE IF error = "permission-denied" THEN 403
  ELSE IF error = "invalid-argument" THEN 400
  ELSE 500

\* The end of the outer catch block: the error event and res.end() when the
\* stream has started, a JSON body with an HTTP status otherwise; then the
\* finally block.
StreamError(r) ==
  /\ sse.r = r /\ req[r].pc \in {"failed", "rejected"}
  /\ ~sse.returned
  /\ sse' = IF sse.streamStarted /\ ~sse.writableEnded
              THEN [ sse EXCEPT !.events = Append(@, "error"),
                                !.writableEnded = TRUE,
                                !.heartbeat = FALSE,
                                !.returned = TRUE ]
              ELSE [ sse EXCEPT !.httpCode = httpCodeOf(req[r].err),
                                !.writableEnded = TRUE,
                                !.heartbeat = FALSE,
                                !.returned = TRUE ]
  /\ UNCHANGED << user, session, req, initBalance, purchaseVars,
                  identity, gb, del, twin, calc, cli >>

\* A tick of the keep-alive timer, which runs from setInterval to
\* clearInterval: if (!res.writableEnded) res.write(": ping ...").
StreamPing ==
  /\ sse.heartbeat
  /\ sse.pings < MaxPings
  /\ sse' = [ sse EXCEPT !.pings = @ + 1,
                         !.events = IF sse.writableEnded THEN @
                                                         ELSE Append(@, "ping") ]
  /\ UNCHANGED << user, session, req, initBalance, purchaseVars,
                  identity, gb, del, twin, calc, cli >>

SpecStream ==
  Init /\ [][ \/ \E r \in Req, e \in EstCosts : StreamRequest(r, e)
              \/ \E r \in Req : StreamLocals(r)
              \/ \E r \in Req : StreamPreRead(r)
              \/ \E r \in Req : StreamReserve(r)
              \/ \E r \in Req : StreamHeaders(r)
              \/ \E r \in Req : StreamHeadersThrow(r)
              \/ \E r \in Req : StreamGenerating(r)
              \/ \E r \in Req, kind \in {"thought", "output"} : StreamChunk(r, kind)
              \/ \E r \in Req, k \in UsageCosts : StreamLoopEnd(r, k)
              \/ \E r \in Req : StreamUsage(r)
              \/ \E r \in Req : StreamThrow(r)
              \/ \E r \in Req : StreamSettle(r)
              \/ \E r \in Req : StreamRollback(r)
              \/ \E r \in Req : StreamClearInterval(r)
              \/ \E r \in Req : StreamOuterCatch(r)
              \/ \E r \in Req : StreamComplete(r)
              \/ \E r \in Req : StreamError(r)
              \/ StreamPing ]_vars

\* ================================================================ claims
PurQuiescent == \A p \in Pur : pur[p].pc \in {"idle", "returned"}
SomeReturned == \E p \in Pur : pur[p].pc = "returned"
\* the store answered every products.get call so far
NoStoreError ==
  \A p \in Pur :
    /\ pur[p].pc # "fail"
    /\ pur[p].error \notin {"internal", "failed-precondition", "permission-denied"}
NoAbandon == \A p \in Pur : pur[p].pc # "abandoned"

\* C1: concurrent requests with the same unseen token, the store verifying
\* each of them, credit the balance and totalPurchased by the product's
\* grant exactly once (never more while they run, exactly once when all of
\* them have returned).
C1_CreditedExactlyOnce ==
  (NoStoreError /\ NoAbandon) =>
    /\ credited <= GIF_PACK_TIER1
    /\ user.balance = initBalance + credited
    /\ user.totalPurchased = initBalance + credited
    /\ (PurQuiescent /\ SomeReturned) => credited = GIF_PACK_TIER1

\* three requests ran at once: one credited, the two others were rejected
C1_Witness ==
  /\ \A p \in Pur : pur[p].pc = "returned"
  /\ Cardinality({ p \in Pur : pur[p].error = "aborted" }) = 2
  /\ \E p \in Pur : pur[p].result = "ok" /\ ~pur[p].alreadyCredited
  /\ user.balance = initBalance + GIF_PACK_TIER1

\* C2 as stated: all requests of a concurrent burst return a response and
\* all responses report the same final balance.
C2_AllReportSameBalance ==
  (NoStoreError /\ NoAbandon /\ PurQuiescent) =>
    \A p \in Pur : pur[p].pc = "returned" =>
      /\ pur[p].result = "ok"
      /\ pur[p].balance = initBalance + GIF_PACK_TIER1

\* C2 amended: each request of the burst returns a response or is rejected
\* with Aborted; every response reports the same final balance, the
\* balance after the one credit.
C2_ResponsesAgreeOrAborted ==
  (NoStoreError /\ NoAbandon) =>
    \A p \in Pur : pur[p].pc = "returned" =>
      \/ pur[p].result = "ok" /\ pur[p].balance = initBalance + GIF_PACK_TIER1
      \/ pur[p].result = "error" /\ pur[p].error = "aborted"

\* a late duplicate got the stored balance, an early one was rejected
C2_Witness ==
  /\ \A p \in Pur : pur[p].pc = "returned"
  /\ \E p \in Pur : pur[p].error = "aborted"
  /\ \E p \in Pur : pur[p].result = "ok" /\ pur[p].alreadyCredited
                       /\ pur[p].balance = initBalance + GIF_PACK_TIER1
  /\ \E p \in Pur : pur[p].result = "ok" /\ ~pur[p].alreadyCredited

\* C3: the credits added for the token never exceed one product grant,
\* takeovers of failed or stale records included.
C3_AtMostOneGrant == credited <= GIF_PACK_TIER1

\* the credit was applied and recorded, and every consume call made for it
\* so far has failed
ConsumeFailedAfterCredit ==
  /\ purchase.consumePending
  /\ ~storeConsumed
  /\ credited >= GIF_PACK_TIER1
  /\ \A p \in Pur : pur[p].pc # "consume"

\* C12: once the consume step has failed after the credit, the credit is
\* not taken back and no step credits the account for the token again.
C12_ConsumeFailureNoDoubleCredit ==
  [][ ConsumeFailedAfterCredit => user'.balance = user.balance ]_vars

C14_CompletedIsIdempotent ==
  [][ \A p \in Pur :
        /\ ( /\ pur[p].pc = "existing" /\ pur'[p].pc # "existing"
             /\ purchase.status = "completed" /\ purchase.uid = pur[p].uid )
             => /\ pur'[p].pc \in {"returned", "retryConsume"}
                /\ pur'[p].pc = "returned" =>
                     /\ pur'[p].result = "ok" /\ pur'[p].alreadyCredited
                     /\ pur'[p].balance = purchase.balanceAfter
                /\ pur'[p].pc = "retryConsume" =>
                     pur'[p].newBalance = purchase.balanceAfter
                /\ purchase' = purchase
                /\ user' = user /\ user2' = user2
        /\ ( /\ pur[p].pc \in {"retryConsume", "retryWrite"}
             /\ pur'[p].pc # pur[p].pc )
             => /\ pur'[p].pc \in {"returned", "retryWrite"}
                /\ pur'[p].pc = "returned" =>
                     /\ pur'[p].result = "ok" /\ pur'[p].alreadyCredited
                     /\ pur'[p].balance = pur[p].newBalance
                /\ pur'[p].pc = "retryWrite" => pur'[p].newBalance = pur[p].newBalance
                /\ purchase'.status = purchase.status
                /\ purchase'.creditsGranted = purchase.creditsGranted
                /\ purchase'.balanceAfter = purchase.balanceAfter
                /\ user' = user /\ user2' = user2
    ]_vars

\* the request was repeated twice on the completed record: both repeats got
\* the stored balance, one of them after retrying the consume; the record
\* and the balance are as the crediting request left them
C14_Witness ==
  /\ Cardinality({ p \in Pur : /\ pur[p].pc = "returned" /\ pur[p].result = "ok"
                                /\ pur[p].alreadyCredited
                                /\ pur[p].balance = initBalance + GIF_PACK_TIER1 }) = 2
  /\ purchase.status = "completed"
  /\ purchase.creditsGranted = GIF_PACK_TIER1
  /\ ~purchase.consumePending /\ storeConsumed
  /\ user.balance = initBalance + GIF_PACK_TIER1

\* C15: a request that reads the record in status processing, updated
\* within the last five minutes, is rejected with Aborted, and the step
\* changes neither the record nor a balance document.
C15_LiveProcessingAborts ==
  [][ \A p \in Pur :
        ( /\ pur[p].pc = "existing" /\ pur'[p].pc \notin {"existing", "abandoned"}
          /\ purchase.status = "processing" /\ ~purchase.stale
          /\ purchase.uid = pur[p].uid )
        => /\ pur'[p].pc = "returned"
           /\ pur'[p].result = "error" /\ pur'[p].error = "aborted"
           /\ purchase' = purchase
           /\ user' = user /\ user2' = user2
    ]_vars

\* a duplicate was rejected while the first request, which took over a
\* stale record, is still at work on it
C15_Witness ==
  /\ \E p, q \in Pur :
       /\ pur[p].pc = "returned" /\ pur[p].error = "aborted"
       /\ pur[q].pc = "verify"
       /\ \E o \in Pur : pur[o].pc = "abandoned"
  /\ purchase.status = "processing" /\ ~purchase.stale
  /\ user.balance = initBalance

\* handler p has passed verification and is at, or past, the credit
PastVerification(p) ==
  pur[p].pc \in {"credit", "complete", "consume", "consumeOk", "consumeFailed"}

C17_ConsumedGrantsNothing ==
  [][ \A p \in Pur :
        /\ (pur[p].pc = "verify" /\ pur'[p].pc # "verify" /\ storeConsumed)
             => /\ pur'[p].pc \in {"consumedRead", "fail"}
                /\ user' = user /\ user2' = user2
        /\ (pur[p].pc = "consumedRead" /\ pur'[p].pc # "consumedRead")
             => /\ pur'[p].pc = "consumedWrite"
                /\ pur'[p].newBalance = currentBalanceOf(userOf(pur[p].uid))
                /\ user' = user /\ user2' = user2
        /\ (pur[p].pc = "consumedWrite" /\ pur'[p].pc # "consumedWrite")
             => /\ purchase'.status = "completed"
                /\ purchase'.creditsGranted = 0
                /\ purchase'.balanceAfter = pur[p].newBalance
                /\ pur'[p].pc = "returned" /\ pur'[p].result = "ok"
                /\ pur'[p].alreadyCredited
                /\ pur'[p].balance = pur[p].newBalance
                /\ user' = user /\ user2' = user2
    ]_vars

\* a request verified the token after it had been consumed at the store:
\* the record is completed with no credits granted by it, and the balance
\* holds the one grant made before the consume
C17_Witness ==
  /\ storeConsumed
  /\ purchase.status = "completed" /\ purchase.creditsGranted = 0
  /\ \E p \in Pur : /\ pur[p].pc = "returned" /\ pur[p].result = "ok"
                     /\ pur[p].alreadyCredited
                     /\ pur[p].balance = initBalance + GIF_PACK_TIER1
  /\ credited = GIF_PACK_TIER1
  /\ user.balance = initBalance + GIF_PACK_TIER1
  /\ user.totalPurchased = initBalance + GIF_PACK_TIER1

\* The balance the sequence would have had without the purchase credit.
\* Every ledger transaction of the sequence changes the balance by an
\* amount it computes from the session and the request, so as long as the
\* sequence has taken the same branches as alone, its balance alone is the
\* balance less the credits granted.
balanceAlone == currentBalanceOf(user) - credited

\* a reservation that is admitted on the credited balance and would have
\* been rejected with resource-exhausted on the balance alone
AdmittedByCredit(r) ==
  /\ req[r].pc = "reserve" /\ req'[r].pc = "call"
  /\ balanceAlone < req'[r].charged

\* the ledger after any interleaving: the credits of the purchase, granted
\* at most once, and the charges of the sequence
LedgerAdds ==
  /\ credited \in {0, GIF_PACK_TIER1}
  /\ user.totalPurchased = initBalance + credited
  /\ user.balance = initBalance + credited - user.totalConsumed

\* what each step of the sequence charges, from the session and the request
\* alone; steps of a purchase request charge nothing and leave the session
\* alone
ChargesFromSequenceOnly ==
  /\ \A r \in Req :
       /\ (req[r].pc = "reserve" /\ req'[r].pc = "call")
            => user'.totalConsumed - user.totalConsumed
                 = provisionalChargeOf(req[r].action,
                                       roundCreditsNonNegative(req[r].target))
       /\ (req[r].pc = "reserve" /\ req'[r].pc = "rejected")
            => user' = user /\ session' = session
       /\ (req[r].pc = "settle" /\ req'[r].pc = "done")
            => user'.totalConsumed - user.totalConsumed
                 = IF isChargeAction(req[r].action) THEN 0
                   ELSE additionalCreditsOf(
                          readRequiredPendingPairState(req[r].action, session),
                          req[r].usage)
       /\ (req[r].pc \in {"rollback", "outerCatch"} /\ req'[r].pc # req[r].pc)
            => user'.totalConsumed - user.totalConsumed
                 = IF req[r].reservationForRollback THEN - req[r].charged ELSE 0
  /\ pur' # pur => /\ user'.totalConsumed = user.totalConsumed
                   /\ session' = session
                   /\ \A r \in Req : /\ req'[r].pc = req[r].pc
                                      /\ req'[r].charged = req[r].charged
                                      /\ req'[r].target = req[r].target

\* C18: a purchase-credit request interleaved at any point of the
\* plan/generate sequence leaves the charges as they are when the sequence
\* runs alone: no reservation is admitted that the balance alone would not
\* have admitted, and the balance is the initial balance plus the credits
\* granted (at most once) minus the charges.
C18_ChargesAsAlone ==
  /\ []LedgerAdds
  /\ [][ChargesFromSequenceOnly /\ \A r \in Req : ~AdmittedByCredit(r)]_vars

\* C18, amended: the purchase credit changes no charge that the sequence
\* makes, and the balance is the initial balance plus the credits granted
\* (at most once) minus the charges made; a reservation that the balance
\* alone could not pay may be admitted once the credit is in.
C18_ChargesUnaltered ==
  /\ []LedgerAdds
  /\ [][ChargesFromSequenceOnly]_vars

\* the credit came in between the plan's reservation and the settlement of
\* the generate request, and both charges are on the ledger
C18_Witness ==
  /\ \E r \in Req : req[r].pc = "done" /\ req[r].action = "generate"
  /\ credited = GIF_PACK_TIER1
  /\ purchase.status = "completed"
  /\ \E p \in Pur : pur[p].pc = "returned" /\ pur[p].result = "ok"
                     /\ pur[p].balance < initBalance + GIF_PACK_TIER1
  /\ user.totalConsumed > 0
  /\ user.balance = initBalance + GIF_PACK_TIER1 - user.totalConsumed

\* C19: the zero-balance document that getBalance writes never replaces a
\* balance (it leaves every account's balance and totalPurchased as they
\* were), and under every interleaving with purchase credits the balances
\* are the initial balance plus the credits made.
C19_GetBalanceNeverOverwrites ==
  /\ [](currentBalanceOf(user) + currentBalanceOf(user2) = initBalance + credited)
  /\ [][ \A g \in Get :
           (gb[g].pc = "create" /\ gb'[g].pc = "returned")
             => /\ user'.balance = currentBalanceOf(user)
                /\ user2'.balance = currentBalanceOf(user2)
                /\ user'.totalPurchased = user.totalPurchased
                /\ user2'.totalPurchased = user2.totalPurchased ]_vars

\* C20: while a purchase record or a session record of the caller remains
\* to be deleted, the identity still exists.
C20_IdentityOutlivesRecords ==
  (OwnedPurchases \/ OwnedSessions) => identity

\* ------------------------------------------------------- billing claims
\* C22: for every pair cost from zero up, the billed credits are at least
\* the configured minimum, and the display credits are a whole number of
\* credits, at least 1 and at least the billed credits.
C22_MinimumChargeFloor ==
  calc.fn = "computeGifBilling"
    => /\ calc.billedCredits >= calc.minBilled
       /\ calc.displayCredits \in Nat
       /\ calc.displayCredits >= 1
       /\ calc.displayCredits * CREDIT_PRECISION_FACTOR >= calc.billedCredits

\* a pair of zero cost under the default minimum: billed the curve's
\* baseline, above the minimum, and shown as one credit
C22_Witness ==
  /\ calc.fn = "computeGifBilling" /\ calc.cost = 0
  /\ calc.minBilled = MIN_BILLED_CREDITS
  /\ calc.billedCredits = FineCurveTable[1]
  /\ calc.billedCredits > MIN_BILLED_CREDITS
  /\ calc.displayCredits = 1

\* what a request left behind: outcome, balance document, session document
\* and the net amount it took from the balance (kept for failed requests)
SameBilling(r) ==
  /\ req[r].pc = twin.syncPc
  /\ req[r].err = twin.syncErr
  /\ user = twin.syncUser
  /\ session = twin.syncSession
  /\ req[r].net = twin.syncNet
  /\ req[r].rollbacks = twin.syncRollbacks

\* C21: for the same action, session state and collaborator outcome the
\* streaming endpoint ends like the synchronous one: same outcome, same
\* refunds, same balance document and same session document.
C21_StreamBillsAsSync ==
  \A r \in Req : (twin.phase = "stream" /\ Ended(r)) => SameBilling(r)

\* the same, for a collaborator that throws or reports a positive usage
C21_StreamBillsAsSyncOnReportedUsage ==
  \A r \in Req :
    (twin.phase = "stream" /\ Ended(r) /\ twin.outcome # 0) => SameBilling(r)

Requests(a) == { q \in Req : req[q].pc # "idle" /\ req[q].action = a }
\* r holds a reservation that is neither settled nor rolled back
HoldsReservation(r) ==
  \/ req[r].pc \in {"call", "settle", "rollback"}
  \/ req[r].pc = "outerCatch" /\ req[r].reservationForRollback
\* r's reservation was accepted and has not been rolled back
ReservationStands(r) == HoldsReservation(r) \/ req[r].pc = "done"
FirstPhaseOf(a) == IF a = "generate" THEN "plan" ELSE "evaluate"

\* C4: a completed plan->generate pair, alone in its session, leaves
\* finalBalance = initialBalance - billedCredits(plan cost + generate cost),
\* whatever the reservation estimates were.
C4_PairConservation ==
  [][ \A r \in Req :
        ( /\ req[r].action = "generate"
          /\ req[r].pc = "settle"
          /\ req'[r].pc = "done"
          /\ \E q \in Req \ {r} :
               /\ req[q].action = "plan" /\ req[q].pc = "done"
               /\ \A o \in Req \ {r, q} : req[o].pc = "idle" )
        => user'.balance = initBalance
             - computeGifBilling(session.pendingPlanCostUsd + req[r].usage.usd)
    ]_vars

\* C5: a generate (refine) request that acts while no plan (evaluate)
\* reservation stands that a completed generate (refine) has not already
\* used up is rejected with FailedPrecondition and changes neither the
\* balance record nor the session.
NoOpenFirstPhase(a) ==
  Cardinality({ q \in Requests(FirstPhaseOf(a)) : ReservationStands(q) })
    <= Cardinality({ q \in Requests(a) : req[q].pc = "done" })

C5_OutOfOrderRejected ==
  [][ \A r \in Req :
        ( /\ req[r].action \in {"generate", "refine"}
          /\ req[r].pc \in {"preread", "reserve"}
          /\ req'[r].pc # req[r].pc
          /\ NoOpenFirstPhase(req[r].action) )
        => /\ req'[r].pc = "rejected"
           /\ req'[r].err = "failed-precondition"
           /\ user' = user
           /\ session' = session
    ]_vars

\* a generate was rejected after an earlier generate had closed the pair,
\* and a refine was rejected in a session that never ran evaluate
C5_Witness ==
  /\ \E r, q \in Req :
       /\ req[r].action = "generate" /\ req[r].pc = "rejected"
       /\ req[r].err = "failed-precondition"
       /\ req[q].action = "generate" /\ req[q].pc = "done"
  /\ Requests("evaluate") = {}

\* C6: when the model call fails right after a reservation (no other ledger
\* transaction in between), the rollback puts the balance, pendingGenerate
\* and pendingRefine back to their values before the reservation.
C6_RollbackExact ==
  [][ \A r \in Req :
        ( /\ req[r].pc = "rollback"
          /\ req[r].err = "model"
          /\ req[r].clean
          /\ req'[r].pc # "rollback" )
        => /\ user'.balance = req[r].balBefore
           /\ session'.pendingGenerate = req[r].pgBefore
           /\ session'.pendingRefine = req[r].prBefore
    ]_vars

\* a generate whose model call failed was rolled back with nothing in between
C6_Witness ==
  \E r \in Req :
    /\ req[r].pc = "failed" /\ req[r].action = "generate"
    /\ req[r].err = "model" /\ req[r].clean /\ req[r].rollbacks = 1
    /\ session.pendingGenerate = 1

\* C23: the rollback of a reservation, with no other ledger transaction in
\* between, puts the pair's reserved-credit field back to its value before
\* the reservation, whatever the action and the session it was made on.
C23_RollbackRestoresReserved ==
  [][ \A r \in Req :
        ( /\ req[r].pc \in {"rollback", "outerCatch"}
          /\ req[r].reservationForRollback
          /\ req[r].clean
          /\ req'[r].pc # req[r].pc )
        => session'[reservationFieldsForAction(req[r].action).pendingReservedCreditsField]
             = req[r].resBefore
    ]_vars

\* the credits debited by the reservations of the requests in S
RECURSIVE ChargedBy(_)
ChargedBy(S) ==
  IF S = {} THEN 0
  ELSE LET r == CHOOSE q \in S : TRUE
       IN req[r].charged + ChargedBy(S \ {r})

\* the requests that hold a reservation on the pair with these fields
HoldersOf(fields) ==
  { r \in Req : HoldsReservation(r)
                 /\ reservationFieldsForAction(req[r].action) = fields }

\* C24: each reserved-credit field accounts for the credits debited by the
\* reservations of its pair that are neither settled nor rolled back; stated
\* here for the reservations of the requests still running, whose credits
\* the field never falls short of.
C24_ReservedFieldAccountsForReservations ==
  \A fields \in {PlanFields, EvaluateFields} :
    session[fields.pendingReservedCreditsField] >= ChargedBy(HoldersOf(fields))

SecondPhaseOf(a) == IF a = "plan" THEN "generate" ELSE "refine"

\* the guards of reserveCreditsForAction before the balance check let a
\* request for action a pass on session document s
PassesPairGuards(a, s) ==
  /\ readRequiredPendingPairState(a, s).ok
  /\ a = "generate" => s.pendingGenerate >= 1
  /\ a = "refine" => s.pendingRefine >= 1

\* C25: when the settlement of a plan or evaluate commits (no other ledger
\* transaction since its reservation), the session is settled-pending: the
\* ordering and staleness guards let the generate or refine pass, whatever
\* usage was reported for the first phase.
C25_SecondPhaseAdmitted ==
  [][ \A r \in Req :
        ( /\ req[r].pc = "settle" /\ req'[r].pc = "done"
          /\ isChargeAction(req[r].action)
          /\ req[r].clean )
        => PassesPairGuards(SecondPhaseOf(req[r].action), session')
    ]_vars

\* C26: settle and rollback are mutually exclusive outcomes of a request.  A
\* settlement step either commits and ends the request as done, or throws
\* before it wrote anything; a request that is done takes no further step;
\* and a refund is applied only by a request in one of its catch blocks.
C26_SettleExcludesRollback ==
  [][ \A r \in Req :
        /\ (req[r].pc = "settle" /\ req'[r].pc # "settle")
             => \/ req'[r].pc = "done"
                \/ /\ req'[r].pc = "rollback"
                   /\ user' = user /\ session' = session
        /\ req[r].pc = "done"
             => req'[r].pc = "done" /\ req'[r].rollbacks = req[r].rollbacks
        /\ req'[r].rollbacks # req[r].rollbacks
             => /\ req[r].pc \in {"rollback", "outerCatch"}
                /\ req[r].additional = 0
    ]_vars

\* a plan settled, and a streaming and a synchronous request each failed
\* and were rolled back once
C26_Witness ==
  \E r, q, p \in Req :
    /\ req[r].pc = "done" /\ req[r].action = "plan" /\ req[r].reserved
    /\ req[q].pc = "failed" /\ req[q].variant = "stream" /\ req[q].rollbacks = 1
    /\ req[p].pc = "failed" /\ req[p].variant = "sync" /\ req[p].rollbacks = 1

\* C27: a streaming request refunds its reservation at most once, wherever
\* it fails: a refund step is taken with reservationForRollback set and
\* clears it, it is the request's first, and the outer catch block that
\* follows the inner one refunds nothing.
C27_StreamRollsBackOnce ==
  [][ \A r \in Req :
        req[r].variant = "stream" =>
          /\ req'[r].rollbacks # req[r].rollbacks
               => /\ req[r].rollbacks = 0 /\ req'[r].rollbacks = 1
                  /\ req[r].reservationForRollback
                  /\ ~req'[r].reservationForRollback
          /\ (req[r].pc = "outerCatch" /\ ~req[r].reservationForRollback
                 /\ req'[r].pc # "outerCatch")
               => user' = user /\ session' = session
    ]_vars

\* two streaming requests failed after reserving, one before the stream
\* started and one in the model call; each was refunded once and the
\* balance is what it was
C27_Witness ==
  /\ \E r, q \in Req :
       /\ \A x \in {r, q} : /\ req[x].pc = "failed" /\ req[x].variant = "stream"
                            /\ req[x].reserved /\ req[x].rollbacks = 1
                            /\ req[x].net = 0
       /\ req[r].err = "internal"
       /\ req[q].err = "model"
  /\ user.balance = initBalance

ReserveCommits(r) == req[r].pc = "reserve" /\ req'[r].pc = "call"

\* What a committed reservation of r debits, against what the pair had
\* reserved before it (alreadyReservedForPair) and the credits asked for
\* (targetCredits).
DebitsIncrement(r) ==
  LET a == req[r].action
      targetCredits == roundCreditsNonNegative(req[r].target)
      alreadyReservedForPair ==
        roundCreditsNonNegative(
          session[reservationFieldsForAction(a).pendingReservedCreditsField])
      increment == IF isChargeAction(a)
                     THEN targetCredits
                     ELSE Max(0, targetCredits - alreadyReservedForPair)
  IN /\ req'[r].charged = increment
     /\ currentBalanceOf(user) - user'.balance = increment
     /\ user'.totalConsumed - user.totalConsumed = increment

ReservedFieldIsMax(r) ==
  LET a == req[r].action
      field == reservationFieldsForAction(a).pendingReservedCreditsField
  IN session'[field] =
       Max(roundCreditsNonNegative(session[field]),
           roundCreditsNonNegative(req[r].target))

\* C29: a reservation that succeeds debits the balance by exactly the amount
\* it returns, targetCredits for plan and evaluate and
\* max(0, targetCredits - alreadyReservedForPair) for generate and refine,
\* and leaves max(alreadyReservedForPair, targetCredits) in the pair's
\* reserved-credit field.
C29_ReserveDebitsIncrement ==
  [][ \A r \in Req :
        ReserveCommits(r) => DebitsIncrement(r) /\ ReservedFieldIsMax(r) ]_vars

\* The settlement of a generate or refine of request r commits in this step.
SecondPhaseSettles(r) ==
  /\ req[r].pc = "settle" /\ req'[r].pc = "done"
  /\ ~isChargeAction(req[r].action)

\* The pending counter of the pair of action a.
pendingCounterOf(a, s) ==
  IF a = "plan" \/ a = "generate" THEN s.pendingGenerate ELSE s.pendingRefine

\* The settlement debits what the pair costs beyond what was reserved.
DebitsPairRemainder(r) ==
  LET fields == pendingPairFieldsForAction(req[r].action)
      pairCredits ==
        computeGifBilling(session[fields.pendingCostUsdField] + req[r].usage.usd)
      alreadyReserved ==
        roundCreditsNonNegative(session[fields.pendingReservedCreditsField])
  IN currentBalanceOf(user) - user'.balance = Max(0, pairCredits - alreadyReserved)

PairFieldsCleared(r) ==
  LET fields == pendingPairFieldsForAction(req[r].action)
  IN /\ session'[fields.pendingCostUsdField] = 0
     /\ session'[fields.pendingTokensField] = 0
     /\ session'[fields.pendingReservedCreditsField] = 0

\* C30: the settlement of a generate or refine debits exactly
\* max(0, pairCredits - alreadyReserved), pairCredits being the billed
\* credits of the stashed cost plus this call's cost, and leaves the pair's
\* pending cost, token and reserved-credit fields at zero and the pair's
\* pending counter at 0.
C30_SecondPhaseSettlementClearsPair ==
  [][ \A r \in Req :
        SecondPhaseSettles(r) =>
          /\ DebitsPairRemainder(r)
          /\ PairFieldsCleared(r)
          /\ pendingCounterOf(req[r].action, session') = 0 ]_vars

C8_CountersZeroOrOne ==
  /\ session.pendingGenerate \in {0, 1}
  /\ session.pendingRefine \in {0, 1}

\* exactly one plan ran in the session, and it completed
SinglePlanCompleted ==
  /\ Cardinality(Requests("plan")) = 1
  /\ \A q \in Requests("plan") : req[q].pc = "done"

\* C9 as stated: of the generate requests that follow a single completed
\* plan, only one ever passes the reservation guard.
C9_OnlyOnePasses ==
  SinglePlanCompleted =>
    Cardinality({ q \in Requests("generate") : req[q].reserved }) <= 1

\* C9 amended: after a single completed plan, a generate that reaches the
\* reservation guard while another generate's reservation stands (held or
\* settled, not rolled back) fails with FailedPrecondition and debits
\* nothing; it passes only once every earlier one has been rolled back.
C9_OneReservationAtATime ==
  [][ \A r \in Req :
        ( /\ SinglePlanCompleted
          /\ req[r].action = "generate"
          /\ req[r].pc = "reserve"
          /\ req'[r].pc # "reserve"
          /\ \E q \in Requests("generate") \ {r} : ReservationStands(q) )
        => /\ req'[r].pc = "rejected"
           /\ req'[r].err = "failed-precondition"
           /\ user' = user
    ]_vars

\* one generate holds its reservation, the concurrent one was rejected
C9_Witness ==
  /\ SinglePlanCompleted
  /\ \E r, q \in Requests("generate") :
       /\ HoldsReservation(r)
       /\ req[q].pc = "rejected" /\ req[q].err = "failed-precondition"

\* C11: a reservation that fails, in the session pre-read or in the
\* reservation transaction, for an ordering violation, a stale pending pair
\* state or an insufficient balance, leaves the user document and the
\* session document as they were.
C11_FailedReservationNoChange ==
  [][ \A r \in Req :
        ( /\ req[r].pc \in {"preread", "reserve"}
          /\ req'[r].pc = "rejected" )
        => /\ req'[r].err \in {"failed-precondition", "resource-exhausted"}
           /\ user' = user
           /\ session' = session
    ]_vars

\* one reservation failed for the balance and one for the pair state, in a
\* session that holds an accepted reservation
C11_Witness ==
  /\ \E r, q \in Req :
       /\ req[r].pc = "rejected" /\ req[r].err = "resource-exhausted"
       /\ req[q].pc = "rejected" /\ req[q].err = "failed-precondition"
  /\ session.exists
  /\ user.balance < initBalance

\* C10: no reservation of a session is accepted while an earlier one of
\* that session is neither settled nor rolled back.
C10_OneOutstandingReservation ==
  Cardinality({ r \in Req : HoldsReservation(r) }) <= 1

\* ------------------------------------------------ first-phase settlement
\* The settlement of a plan or evaluate of request r commits in this step.
FirstPhaseSettles(r) ==
  /\ req[r].pc = "settle" /\ req'[r].pc = "done"
  /\ isChargeAction(req[r].action)

\* C31: the settlement of a plan or evaluate leaves the user's balance and
\* totalConsumed and both pending counters as they are; all it writes is the
\* call's USD cost and token count, into the pending fields of its pair.
C31_FirstPhaseSettlementOnlyStashes ==
  [][ \A r \in Req :
        FirstPhaseSettles(r) =>
          LET fields == reservationFieldsForAction(req[r].action)
          IN /\ user' = user
             /\ session'.pendingGenerate = session.pendingGenerate
             /\ session'.pendingRefine = session.pendingRefine
             /\ session'[fields.pendingCostUsdField] = req[r].usage.usd
             /\ session'[fields.pendingTokensField] = req[r].usage.tokens
             /\ \A f \in DOMAIN session :
                  f \notin {"exists", fields.pendingCostUsdField,
                            fields.pendingTokensField}
                    => session'[f] = session[f] ]_vars

\* a plan has settled: its cost is stashed, its counter still stands and
\* nothing but its reservation was ever debited
C31_Witness ==
  /\ \E r \in Req : req[r].pc = "done" /\ req[r].action = "plan"
  /\ \A r \in Req : req[r].pc \in {"idle", "done"} /\ req[r].action = "plan"
  /\ session.pendingPlanCostUsd > 0
  /\ session.pendingGenerate = 1
  /\ user.totalConsumed = session.pendingPlanReservedCredits
  /\ user.totalConsumed > 0
\* ------------------------------------------------------ the balance record
\* C32: in every reachable state the balance of a user's record is its
\* totalPurchased less its totalConsumed, however purchase credits,
\* reservations, settlements and rollbacks interleave.
C32_BalanceIsPurchasedLessConsumed ==
  \A uid \in Uids :
    userOf(uid).balance = userOf(uid).totalPurchased - userOf(uid).totalConsumed

\* a pack was credited while the sequence ran, one generate was rolled back
\* and another settled, more than a pack being consumed in all
C32_Witness ==
  /\ user.totalPurchased > initBalance
  /\ user.totalConsumed > initBalance
  /\ \E r \in Req : req[r].pc = "failed" /\ req[r].rollbacks = 1
  /\ \E r \in Req : req[r].pc = "done" /\ req[r].action = "generate"
\* C33: in every reachable state of a user's record the debt is
\* max(0, -balance) and hasNegativeBalance is true exactly when the balance
\* is below zero, whichever of reservation, settlement, rollback, purchase
\* credit and creation wrote the record last.
C33_DebtAndFlagFollowBalance ==
  \A uid \in Uids :
    /\ userOf(uid).creditDebt = Max(0, -userOf(uid).balance)
    /\ userOf(uid).hasNegativeBalance <=> (userOf(uid).balance < 0)

\* the settlement of a generate left the user in debt, and a purchase
\* request is about to credit a pack onto the negative balance
C33_Witness ==
  /\ user.balance < 0 /\ user.creditDebt = -user.balance
  /\ user.hasNegativeBalance
  /\ \E r \in Req : req[r].pc = "done" /\ req[r].action = "generate"
  /\ \E p \in Pur : pur[p].pc = "credit" /\ pur[p].uid = "u1"
\* ------------------------------------------------------ purchase lifecycle
\* C34: completed is a terminal status of a purchase record: once the record
\* is completed no later write of any request, a slow request that started
\* before the completion included, turns its status to processing or failed
\* or changes its creditsGranted.
C34_CompletedIsTerminal ==
  [][ (purchase.exists /\ purchase.status = "completed")
        => /\ purchase'.status = "completed"
           /\ purchase'.creditsGranted = purchase.creditsGranted ]_vars
\* What handler p does for a completed purchase with consumePending set:
\* it goes to the consume of the store; a consume that fails ends it with
\* the idempotent answer and the record untouched, one that succeeds is
\* followed by the write that clears consumePending, and the same answer.
RetriesConsume(p) ==
  /\ ( /\ pur[p].pc = "existing" /\ pur'[p].pc # "existing"
       /\ ~uidMismatch(purchase, pur[p].uid)
       /\ purchase.status = "completed" /\ purchase.consumePending )
        => pur'[p].pc = "retryConsume"
  /\ (pur[p].pc = "retryConsume" /\ pur'[p].pc # "retryConsume")
        => \/ pur'[p].pc = "retryWrite" /\ storeConsumed' /\ purchase' = purchase
           \/ /\ pur'[p].pc = "returned" /\ pur'[p].result = "ok"
              /\ pur'[p].alreadyCredited
              /\ pur'[p].balance = pur[p].newBalance
              /\ purchase' = purchase /\ storeConsumed' = storeConsumed
  /\ (pur[p].pc = "retryWrite" /\ pur'[p].pc # "retryWrite")
        => /\ ~purchase'.consumePending
           /\ pur'[p].pc = "returned" /\ pur'[p].result = "ok"
           /\ pur'[p].alreadyCredited

TerminalEvents == {"complete", "error"}

TerminalCount ==
  Cardinality({ i \in 1..Len(sse.events) : sse.events[i] \in TerminalEvents })

\* C36: a streaming request whose stream has started writes the status
\* event of stage "reserved" first and ends with exactly one terminal event,
\* complete or error; no thought, output or keep-alive write follows the
\* terminal event, and the keep-alive timer is cancelled on every exit.
C36_StreamEventOrder ==
  /\ sse.streamStarted =>
       /\ Len(sse.events) >= 1 /\ sse.events[1] = "status:reserved"
       /\ \A i \in 1..Len(sse.events) :
            sse.events[i] \in TerminalEvents => i = Len(sse.events)
       /\ sse.returned => TerminalCount = 1
       /\ sse.writableEnded <=> TerminalCount = 1
  /\ ~sse.streamStarted => sse.events = << >>
  /\ sse.returned => ~sse.heartbeat

\* a stream that ended with the error event after a thought chunk and a
\* keep-alive, the handler having returned
C36_Witness ==
  /\ sse.returned /\ sse.streamStarted
  /\ sse.events[Len(sse.events)] = "error"
  /\ \E i \in 1..Len(sse.events) : sse.events[i] = "thought"
  /\ \E i \in 1..Len(sse.events) : sse.events[i] = "ping"
\* The settlement of the streaming request that runs commits in this step.
StreamSettles ==
  /\ sse.r \in Req
  /\ req[sse.r].pc = "settle" /\ req'[sse.r].pc = "done"

\* The pre-call estimate of the action's own usage: the estimated input
\* tokens and OUTPUT_ESTIMATES[action], without the follow-up share that the
\* pair estimate of a plan or evaluate holds.
preCallEstimate(a, e) == IF isChargeAction(a) THEN (e + 1) \div 2 ELSE e

\* The settlement bills the usage billedUsd: a plan stashes it, a generate
\* is debited what the pair then costs beyond its reservation.
SettlesUsage(r, billedUsd) ==
  IF req[r].action = "plan"
    THEN /\ session'.pendingPlanCostUsd = billedUsd
         /\ session'.pendingPlanTokens = billedUsd
    ELSE currentBalanceOf(user) - user'.balance =
           Max(0, computeGifBilling(session.pendingPlanCostUsd + billedUsd)
                    - roundCreditsNonNegative(session.pendingPlanReservedCredits))

\* C37: when the model stream of a streaming request ends without usage
\* metadata, the settlement uses the pre-call estimate and the complete
\* event carries usageEstimatedFallback = true; when usage metadata is there
\* the flag is false and the reported usage is billed.
C37_StreamFallsBackToEstimate ==
  /\ [][ StreamSettles =>
            SettlesUsage(sse.r,
              IF sse.usageMetadata > 0
                THEN sse.usageMetadata
                ELSE preCallEstimate(req[sse.r].action, req[sse.r].est)) ]_vars
  /\ [](sse.usageEstimatedFallback <=>
           /\ sse.events # << >>
           /\ sse.events[Len(sse.events)] = "complete"
           /\ sse.usageMetadata = 0)

\* a generate whose stream reported no usage has settled and ended with the
\* complete event, flagged as estimated
C37_Witness ==
  /\ sse.r \in Req /\ sse.returned
  /\ req[sse.r].pc = "done" /\ req[sse.r].action = "generate"
  /\ sse.events[Len(sse.events)] = "complete"
  /\ sse.usageEstimatedFallback
  /\ user.totalConsumed > 0
\* -------------------------------------------------------- the token cap
\* The gateway answers request r in this step.
GatewayAnswers(r) == req[r].pc = "idle" /\ req'[r].pc # "idle"

RejectedOversized(r) ==
  /\ req'[r].pc = "rejected" /\ req'[r].err = "invalid-argument"
  /\ ~req'[r].reserved
  /\ user' = user /\ session' = session

\* C38: a generation request is rejected with invalid-argument for its size
\* exactly when its input token count exceeds the token cap; an input of
\* exactly the cap is accepted; the rejection comes before any reservation
\* and changes no state.
C38_RejectedExactlyAboveCap ==
  [][ \A r \in Req :
        GatewayAnswers(r) =>
          /\ req'[r].inputTokens > INPUT_TOKEN_CAP <=> RejectedOversized(r)
          /\ req'[r].inputTokens = INPUT_TOKEN_CAP
               => req'[r].pc \in {"reserve", "preread"} ]_vars
\* -------------------------------------------------- the client's promise
ReceivedOf(name) ==
  { i \in 1..Len(cli.received) : cli.received[i].event = name }

\* C39: the streaming client resolves with a result only if a complete
\* event arrived and no error event did; an error event makes it reject
\* with the message of an error event, and a stream that ends without a
\* complete event makes it reject, however the body is cut into reads.
C39_ClientResolvesOnlyOnComplete ==
  /\ cli.pc = "resolved" =>
       /\ ReceivedOf("complete") # {} /\ ReceivedOf("error") = {}
       /\ cli.completeResult = "result"
  /\ cli.pc \in {"resolved", "rejected"} =>
       /\ ReceivedOf("error") # {} =>
            /\ cli.pc = "rejected"
            /\ \E i \in ReceivedOf("error") : cli.thrown = cli.received[i].data
       /\ ReceivedOf("complete") = {} => cli.pc = "rejected"
       /\ (ReceivedOf("complete") # {} /\ ReceivedOf("error") = {})
            => cli.pc = "resolved"

\* the client rejected with the message of an error event that arrived
\* after a complete event, and the connection ended inside a later event
C39_Witness ==
  /\ cli.pc = "rejected" /\ cli.thrown = "Insufficient GIF credits"
  /\ Len(cli.received) = 2
  /\ cli.received[1].event = "complete" /\ cli.received[2].event = "error"
  /\ Len(cli.stream) > 10
\* ------------------------------------------------ the two pairs' frames
\* Request r reserves, settles or rolls back in this step.
BillingStepOf(r) ==
  /\ req[r].pc \in {"reserve", "settle", "rollback"}
  /\ req'[r].pc # req[r].pc

\* The session state of the pair the action a does not belong to is the
\* same after the step.
OtherPairUnchanged(a) ==
  IF a \in {"plan", "generate"}
    THEN /\ session'.pendingRefine = session.pendingRefine
         /\ session'.pendingEvaluateCostUsd = session.pendingEvaluateCostUsd
         /\ session'.pendingEvaluateTokens = session.pendingEvaluateTokens
         /\ session'.pendingEvaluateReservedCredits = session.pendingEvaluateReservedCredits
    ELSE /\ session'.pendingGenerate = session.pendingGenerate
         /\ session'.pendingPlanCostUsd = session.pendingPlanCostUsd
         /\ session'.pendingPlanTokens = session.pendingPlanTokens
         /\ session'.pendingPlanReservedCredits = session.pendingPlanReservedCredits

\* C40: reservation, settlement and rollback of a plan or generate leave
\* pendingRefine and the pendingEvaluate* fields of the session unchanged,
\* and those of an evaluate or refine leave pendingGenerate and the
\* pendingPlan* fields unchanged.
C40_PairsAreIndependent ==
  [][ \A r \in Req : BillingStepOf(r) => OtherPairUnchanged(req[r].action) ]_vars

\* a generate was billed and a plan rolled back while an evaluation is
\* stashed in the session, waiting for its refine
C40_Witness ==
  /\ session.pendingRefine = 1
  /\ session.pendingEvaluateCostUsd > 0
  /\ session.pendingEvaluateReservedCredits > 0
  /\ \E r \in Req : req[r].action = "evaluate" /\ req[r].pc = "done"
  /\ \E r \in Req : /\ req[r].action \in {"plan", "generate"}
                     /\ req[r].pc \in {"done", "failed"}
====
